---------------------------- MODULE Spec2Model ----------------------------
(***************************************************************************)
(* Model of the aggregation core of property-development-mcp:              *)
(*   CacheService  (src/src/services/CacheService.ts)                       *)
(*   RateLimiter   (src/src/services/RateLimiter.ts)                        *)
(*   PropertyAnalyzer (src/src/services/PropertyAnalyzer.ts)                *)
(*   PropertyDevelopmentServer, the CallTool handler                        *)
(* Time is the value of Date.now() in milliseconds.  Map objects are       *)
(* modelled as sequences in insertion order, as Array.from(map.entries())  *)
(* yields them.                                                            *)
(***************************************************************************)
EXTENDS Integers, Sequences, FiniteSets, TLC

VARIABLES
    now,          \* Date.now()
    maxSize,      \* CacheService.maxSize (constructor argument)
    cache,        \* CacheService.cache: sequence of entries in Map insertion order
    cleanupDue,   \* instant at which the cache's setInterval callback is next due
    lease,        \* per stored key: the call (set or refresh) that last stamped the entry, with its ttl argument
    inflight,     \* per getOrSet call: idle, or suspended at `await fn()`
    lastOp,       \* the CacheService call that has just returned, with its return value
    config,       \* RateLimiter.config (constructor arguments)
    requests,     \* RateLimiter.requests: per identifier, the stored records ("absent" is <<>>)
    sweepDue,     \* instant at which the limiter's setInterval callback is next due
    rlLast,       \* the RateLimiter call that has just returned, with its return value
    srv,          \* PropertyDevelopmentServer: the tool calls that went past the rate check, and the last response
    googleKey,    \* PropertyAnalyzer.APIs.GOOGLE_PLACES is configured
    an,           \* PropertyAnalyzer.analyze: the position of the call and of the provider calls it issued
    quality,      \* PropertyAnalyzer.assessDataQuality: the arguments of two calls and what they returned
    heap,         \* the objects that callers pass to the cache as values: per object, its present content
    timers        \* per component, whether its setInterval timer is running (not cleared)

rlVars == <<config, requests, sweepDue, rlLast>>
cacheVars == <<maxSize, cache, cleanupDue, lease, inflight, lastOp>>
appVars == <<srv, googleKey, an, quality, heap, timers>>

----------------------------------------------------------------------------
(* Bounds of the model *)

NumKeys == 2
NumFillers == 19
NumValues == 2
NumCalls == 2
SmallMaxSize == 1
LargeMaxSize == 20
DefaultTTLMinutes == 2
MaxTtlArg == 1
MaxAccessCount == 1
MaxCacheMinutes == 5
MaxEvictMinutes == 1
MaxSweepMinutes == 10
NumIds == 1
MaxRequests == 2
MaxRateSteps == 5
MaxServerCalls == 3
MaxAnalyses == 2
MaxComparables == 5
MaxSampleSteps == 5
MaxPlanning == 1
NumContents == 2

(* Program constants *)

MsPerMinute == 60 * 1000
CleanupIntervalMs == 5 * 60 * 1000
WindowMs == 60000
RateStepMs == 30 * 1000

----------------------------------------------------------------------------
(* Inputs *)

Keys == 1 .. NumKeys
FillerKeys == (NumKeys + 1) .. (NumKeys + NumFillers)
Values == 1 .. NumValues
Calls == 1 .. NumCalls
Null == 0
NoArg == <<>>
TtlArgs == {NoArg} \cup {<<m>> : m \in 0 .. MaxTtlArg}
Idle == [pc |-> "idle"]
TimersRunning == [cache |-> TRUE, limiter |-> TRUE]
NoOp == [op |-> "none"]

Max(a, b) == IF a >= b THEN a ELSE b
Min(a, b) == IF a <= b THEN a ELSE b

----------------------------------------------------------------------------
(* Map helpers *)

KeysOf(c) == {c[i].key : i \in 1 .. Len(c)}

MapHas(c, k) == \E i \in 1 .. Len(c) : c[i].key = k

MapGet(c, k) == c[CHOOSE i \in 1 .. Len(c) : c[i].key = k]

MapSet(c, k, e) ==
    IF MapHas(c, k)
    THEN [i \in 1 .. Len(c) |-> IF c[i].key = k THEN e ELSE c[i]]
    ELSE Append(c, e)

MapDelete(c, k) == SelectSeq(c, LAMBDA e : e.key # k)

----------------------------------------------------------------------------
(* CacheService *)

defaultTTL == DefaultTTLMinutes * 60 * 1000

\* `ttlMinutes ? ttlMinutes * 60 * 1000 : this.defaultTTL`: an omitted argument
\* and the number 0 are both falsy.
Truthy(ttlMinutes) == ttlMinutes # NoArg /\ ttlMinutes[1] # 0

TtlOf(ttlMinutes) ==
    IF Truthy(ttlMinutes) THEN ttlMinutes[1] * 60 * 1000 ELSE defaultTTL

Expired(e, t) == t - e.timestamp > e.ttl

\* mutant: the comparator looks at the last access time only
CompareByLastAccessed(a, b) == a.lastAccessed - b.lastAccessed

\* comparator of evictOldest: negative when a sorts before b
CompareEntries(a, b) ==
    IF a.accessCount # b.accessCount
    THEN a.accessCount - b.accessCount
    ELSE a.lastAccessed - b.lastAccessed

\* Array.prototype.sort is stable: of two entries that compare equal, the one
\* that comes first in the Map stays first.  c[i] sorts before c[j]:
SortsBefore(c, i, j) ==
    \/ CompareEntries(c[i], c[j]) < 0
    \/ CompareEntries(c[i], c[j]) = 0 /\ i < j

\* index of c[i] in the sorted array, counted from 0
SortedIndex(c, i) == Cardinality({j \in 1 .. Len(c) : SortsBefore(c, j, i)})

ToRemove == Max(1, maxSize \div 10)

\* the keys deleted by the loop `for (i = 0; i < toRemove && i < entries.length; i++)`
Victims(c) == {c[i].key : i \in {j \in 1 .. Len(c) : SortedIndex(c, j) < ToRemove}}

EvictOldest(c) ==
    LET victims == Victims(c)
    IN  SelectSeq(c, LAMBDA e : e.key \notin victims)

\* mutant: the capacity test is off by one
AtCapacityOffByOne(c) == Len(c) > maxSize

\* `if (this.cache.size >= this.maxSize)`
AtCapacity(c) == Len(c) >= maxSize

NewEntry(k, v, ttlMinutes) ==
    [key |-> k, data |-> v, timestamp |-> now, ttl |-> TtlOf(ttlMinutes),
     accessCount |-> 0, lastAccessed |-> now]

\* store after set(k, v, ttlMinutes)
SetStore(c, k, v, ttlMinutes) ==
    MapSet(IF AtCapacity(c) THEN EvictOldest(c) ELSE c, k, NewEntry(k, v, ttlMinutes))

SetEvicted(c) == IF AtCapacity(c) THEN KeysOf(c) \ KeysOf(EvictOldest(c)) ELSE {}

\* return value of get(k)
GetResult(c, k) ==
    IF ~MapHas(c, k) THEN Null
    ELSE IF Expired(MapGet(c, k), now) THEN Null
    ELSE MapGet(c, k).data

\* store after get(k)
GetStore(c, k) ==
    IF ~MapHas(c, k) THEN c
    ELSE IF Expired(MapGet(c, k), now) THEN MapDelete(c, k)
    ELSE MapSet(c, k, [MapGet(c, k) EXCEPT !.accessCount = @ + 1, !.lastAccessed = now])

\* the leases of the entries that are no longer stored are dropped
LeaseAfter(c, l) == [k \in KeysOf(c) |-> l[k]]

Stamp(l, k, call) == [j \in DOMAIN l \cup {k} |-> IF j = k THEN call ELSE l[j]]

Set(k, v, ttlMinutes) ==
    /\ cache' = SetStore(cache, k, v, ttlMinutes)
    /\ lease' = LeaseAfter(cache', Stamp(lease, k, [kind |-> "set", arg |-> ttlMinutes, at |-> now]))
    /\ lastOp' = [op |-> "set", key |-> k, result |-> Null, evicted |-> SetEvicted(cache)]
    /\ UNCHANGED <<now, maxSize, cleanupDue, inflight, rlVars, appVars>>

Get(k) ==
    /\ MapHas(cache, k) => MapGet(cache, k).accessCount < MaxAccessCount
    /\ cache' = GetStore(cache, k)
    /\ lease' = LeaseAfter(cache', lease)
    /\ lastOp' = [op |-> "get", key |-> k, result |-> GetResult(cache, k), evicted |-> {}]
    /\ UNCHANGED <<now, maxSize, cleanupDue, inflight, rlVars, appVars>>

Has(k) ==
    /\ cache' = IF MapHas(cache, k) /\ Expired(MapGet(cache, k), now)
                THEN MapDelete(cache, k) ELSE cache
    /\ lease' = LeaseAfter(cache', lease)
    /\ lastOp' = [op |-> "has", key |-> k,
                  result |-> MapHas(cache, k) /\ ~Expired(MapGet(cache, k), now),
                  evicted |-> {}]
    /\ UNCHANGED <<now, maxSize, cleanupDue, inflight, rlVars, appVars>>

Delete(k) ==
    /\ cache' = MapDelete(cache, k)
    /\ lease' = LeaseAfter(cache', lease)
    /\ lastOp' = [op |-> "delete", key |-> k, result |-> MapHas(cache, k), evicted |-> {}]
    /\ UNCHANGED <<now, maxSize, cleanupDue, inflight, rlVars, appVars>>

Clear ==
    /\ cache' = <<>>
    /\ lease' = LeaseAfter(cache', lease)
    /\ lastOp' = [op |-> "clear", key |-> Null, result |-> Null, evicted |-> {}]
    /\ UNCHANGED <<now, maxSize, cleanupDue, inflight, rlVars, appVars>>

\* mutant: refresh sets the ttl and forgets the timestamp
RefreshEntryTtlOnly(e, ttlMinutes) == [e EXCEPT !.ttl = TtlOf(ttlMinutes)]

\* mutant: refresh counts as an access
RefreshEntryTouching(e, ttlMinutes) ==
    [e EXCEPT !.timestamp = now, !.ttl = TtlOf(ttlMinutes), !.lastAccessed = now]

RefreshEntry(e, ttlMinutes) == [e EXCEPT !.timestamp = now, !.ttl = TtlOf(ttlMinutes)]

Refresh(k, ttlMinutes) ==
    /\ cache' = IF MapHas(cache, k)
                THEN MapSet(cache, k, RefreshEntry(MapGet(cache, k), ttlMinutes))
                ELSE cache
    /\ lease' = IF MapHas(cache, k)
                THEN Stamp(lease, k, [kind |-> "refresh", arg |-> ttlMinutes, at |-> now,
                                      oldExpiry |-> MapGet(cache, k).timestamp + MapGet(cache, k).ttl])
                ELSE lease
    /\ lastOp' = [op |-> "refresh", key |-> k, result |-> MapHas(cache, k), evicted |-> {}]
    /\ UNCHANGED <<now, maxSize, cleanupDue, inflight, rlVars, appVars>>

\* mutant: the sweep removes the entries that are older than the default TTL
CleanupByDefaultTtl(e, t) == t - e.timestamp > defaultTTL

\* the test of cleanup: `now - entry.timestamp > entry.ttl`
CleanupCondition(e, t) == t - e.timestamp > e.ttl

\* the setInterval callback
Cleanup ==
    /\ timers.cache
    /\ now >= cleanupDue
    /\ cache' = SelectSeq(cache, LAMBDA e : ~CleanupCondition(e, now))
    /\ lease' = LeaseAfter(cache', lease)
    /\ cleanupDue' = cleanupDue + CleanupIntervalMs
    /\ lastOp' = [op |-> "cleanup", key |-> Null, result |-> Null, evicted |-> {},
                  expired |-> KeysOf(cache) \ KeysOf(cache')]
    /\ UNCHANGED <<now, maxSize, inflight, rlVars, appVars>>

\* mutant: destroy clears the store and leaves the timer running
DestroyCacheKeepsTimer ==
    /\ cache' = <<>>
    /\ lease' = LeaseAfter(cache', lease)
    /\ lastOp' = [op |-> "destroy", key |-> Null, result |-> Null, evicted |-> {}]
    /\ UNCHANGED <<now, maxSize, cleanupDue, inflight, rlVars, appVars>>

\* CacheService.destroy: clearInterval(this.cleanupInterval), then clear()
DestroyCache ==
    /\ timers' = [timers EXCEPT !.cache = FALSE]
    /\ cache' = <<>>
    /\ lease' = LeaseAfter(cache', lease)
    /\ lastOp' = [op |-> "destroy", key |-> Null, result |-> Null, evicted |-> {}]
    /\ UNCHANGED <<now, maxSize, cleanupDue, inflight, rlVars, srv, googleKey, an, quality, heap>>

\* setMultiple(entries) with one entry per filler key, no ttl argument; the batch
\* is loaded only while none of its keys is stored
RECURSIVE SetAll(_, _)
SetAll(c, ks) ==
    IF ks = <<>> THEN c
    ELSE SetAll(SetStore(c, Head(ks), 1, NoArg), Tail(ks))

FillerList == [i \in 1 .. NumFillers |-> NumKeys + i]

SetMultiple ==
    /\ KeysOf(cache) \cap FillerKeys = {}
    /\ cache' = SetAll(cache, FillerList)
    /\ lease' = LeaseAfter(cache', [k \in DOMAIN lease \cup FillerKeys |->
                    IF k \in FillerKeys THEN [kind |-> "set", arg |-> NoArg, at |-> now] ELSE lease[k]])
    /\ lastOp' = [op |-> "setMultiple", key |-> Null, result |-> Null, evicted |-> {}]
    /\ UNCHANGED <<now, maxSize, cleanupDue, inflight, rlVars, appVars>>

\* mutant: single-flight, a miss joins the call already suspended on the key
InvokeProducerSingleFlight(p, k, ttlMinutes) ==
    IF \E q \in Calls : inflight[q] # Idle /\ inflight[q].key = k
    THEN [inflight EXCEPT ![p] = [pc |-> "joined", key |-> k, arg |-> ttlMinutes]]
    ELSE [inflight EXCEPT ![p] = [pc |-> "awaiting", key |-> k, arg |-> ttlMinutes]]

\* `const result = await fn()`: the producer is invoked and the call suspends
InvokeProducer(p, k, ttlMinutes) ==
    [inflight EXCEPT ![p] = [pc |-> "awaiting", key |-> k, arg |-> ttlMinutes]]

\* getOrSet up to `await fn()`: a hit returns, a miss invokes the producer and suspends
GetOrSetStart(p, k, ttlMinutes) ==
    /\ inflight[p] = Idle
    /\ MapHas(cache, k) => MapGet(cache, k).accessCount < MaxAccessCount
    /\ cache' = GetStore(cache, k)
    /\ lease' = LeaseAfter(cache', lease)
    /\ inflight' = IF GetResult(cache, k) # Null THEN inflight
                   ELSE InvokeProducer(p, k, ttlMinutes)
    /\ lastOp' = [op |-> "getOrSet", key |-> k, result |-> GetResult(cache, k),
                  evicted |-> {}, call |-> p]
    /\ UNCHANGED <<now, maxSize, cleanupDue, rlVars, appVars>>

\* mutant: the result of the producer is returned and not stored
GetOrSetResolveNoStore(p, v) ==
    /\ inflight[p] # Idle
    /\ inflight' = [inflight EXCEPT ![p] = Idle]
    /\ lastOp' = [op |-> "getOrSetDone", key |-> inflight[p].key, result |-> v,
                  evicted |-> {}, call |-> p]
    /\ UNCHANGED <<now, maxSize, cache, cleanupDue, lease, rlVars, appVars>>

\* the producer resolves with v: the rest of getOrSet runs
GetOrSetResolve(p, v) ==
    /\ inflight[p] # Idle
    /\ cache' = SetStore(cache, inflight[p].key, v, inflight[p].arg)
    /\ lease' = LeaseAfter(cache', Stamp(lease, inflight[p].key,
                                        [kind |-> "set", arg |-> inflight[p].arg, at |-> now]))
    /\ inflight' = [inflight EXCEPT ![p] = Idle]
    /\ lastOp' = [op |-> "getOrSetDone", key |-> inflight[p].key, result |-> v,
                  evicted |-> SetEvicted(cache), call |-> p]
    /\ UNCHANGED <<now, maxSize, cleanupDue, rlVars, appVars>>

\* the producer rejects: the rejection propagates and nothing is stored
GetOrSetReject(p) ==
    /\ inflight[p] # Idle
    /\ inflight' = [inflight EXCEPT ![p] = Idle]
    /\ lastOp' = [op |-> "getOrSetFailed", key |-> inflight[p].key, result |-> Null,
                  evicted |-> {}, call |-> p]
    /\ UNCHANGED <<now, maxSize, cache, cleanupDue, lease, rlVars, appVars>>

\* time passes; a due timer callback runs before the clock moves on
CacheAdvance(maxMinutes) ==
    /\ timers.cache => now < cleanupDue
    /\ now + MsPerMinute <= maxMinutes * MsPerMinute
    /\ now' = now + MsPerMinute
    /\ lastOp' = NoOp
    /\ UNCHANGED <<maxSize, cache, cleanupDue, lease, inflight, rlVars, appVars>>

\* Values that are objects.  `data` is stored and returned as it is passed: for
\* an object that is a reference, and the object lives outside the cache.
NoObjects == <<>>
Objects == Values
Contents == 0 .. (NumContents - 1)

\* what get(k) hands to its caller, seen through the reference
ContentOf(c, h, k) == h[MapGet(c, k).data]

\* the caller of set(k, o) or of get(k) changes a property of the object o
\* that it passed or received
Mutate(o) ==
    /\ \/ lastOp.op = "set" /\ MapHas(cache, lastOp.key) /\ MapGet(cache, lastOp.key).data = o
       \/ lastOp.op = "get" /\ lastOp.result = o
    /\ heap' = [heap EXCEPT ![o] = (@ + 1) % NumContents]
    /\ lastOp' = [op |-> "mutate", key |-> Null, result |-> o, evicted |-> {}]
    /\ UNCHANGED <<now, maxSize, cache, cleanupDue, lease, inflight, rlVars, srv, googleKey, an, quality, timers>>

----------------------------------------------------------------------------
(* RateLimiter *)

Ids == 1 .. NumIds

DefaultConfig ==
    [maxRequests |-> MaxRequests, windowMs |-> WindowMs,
     skipSuccessfulRequests |-> FALSE, skipFailedRequests |-> FALSE]

SweepIntervalMs == Min(WindowMs, 60000)

\* mutant: a record aged exactly windowMs still counts
InWindowInclusive(r, t) == t - r.timestamp <= config.windowMs

\* the filter of getValidRequests and of cleanup
InWindow(r, t) == t - r.timestamp < config.windowMs

ValidRequests(rs, t) == SelectSeq(rs, LAMBDA r : InWindow(r, t))

\* mutant: one request too many is let through
AllowedOneMore(n) == n <= config.maxRequests

\* `requests.length < this.config.maxRequests`
Allowed(n) == n < config.maxRequests

\* mutant: the two skip options are swapped
SkipsSwapped(success) ==
    \/ success /\ config.skipFailedRequests
    \/ ~success /\ config.skipSuccessfulRequests

\* the two `Skip recording based on configuration` returns of recordRequest
Skips(success) ==
    \/ success /\ config.skipSuccessfulRequests
    \/ ~success /\ config.skipFailedRequests

\* getResetTime over the stored records rs
ResetTime(rs) ==
    IF Len(rs) = 0 THEN 0
    ELSE LET oldestRequest == CHOOSE t \in {rs[i].timestamp : i \in 1 .. Len(rs)} :
                                  \A i \in 1 .. Len(rs) : t <= rs[i].timestamp
         IN  Max(0, oldestRequest + config.windowMs - now)

\* number of canMakeRequest calls in a row that returned true for id, the first
\* of them made while id had no record
Streak(id, result) ==
    IF ~result THEN 0
    ELSE IF rlLast.op = "canMakeRequest" /\ rlLast.id = id /\ rlLast.streak > 0
         THEN Min(rlLast.streak + 1, config.maxRequests + 1)
         ELSE IF requests[id] = <<>> THEN 1 ELSE 0

CanMakeRequest(id) ==
    /\ requests' = [requests EXCEPT ![id] = ValidRequests(@, now)]
    /\ rlLast' = [op |-> "canMakeRequest", id |-> id,
                  result |-> Allowed(Len(ValidRequests(requests[id], now))),
                  stored |-> Len(requests[id]),
                  streak |-> Streak(id, Allowed(Len(ValidRequests(requests[id], now))))]
    /\ UNCHANGED <<now, config, sweepDue, cacheVars, appVars>>

\* mutant: recordRequest appends without asking canMakeRequest
RecordRequestUnchecked(id, success) ==
    /\ requests' = [requests EXCEPT ![id] =
                        Append(ValidRequests(@, now), [timestamp |-> now, success |-> success])]
    /\ rlLast' = [op |-> "recordRequest", id |-> id, result |-> TRUE,
                  stored |-> Len(requests[id]), success |-> success]
    /\ UNCHANGED <<now, config, sweepDue, cacheVars, appVars>>

RecordRequest(id, success) ==
    LET valid == ValidRequests(requests[id], now)
    IN  /\ requests' = [requests EXCEPT ![id] =
                            IF Allowed(Len(valid)) /\ ~Skips(success)
                            THEN Append(valid, [timestamp |-> now, success |-> success])
                            ELSE valid]
        /\ rlLast' = [op |-> "recordRequest", id |-> id, result |-> Allowed(Len(valid)),
                      stored |-> Len(requests[id]), success |-> success]
        /\ UNCHANGED <<now, config, sweepDue, cacheVars, appVars>>

GetRemainingRequests(id) ==
    /\ requests' = [requests EXCEPT ![id] = ValidRequests(@, now)]
    /\ rlLast' = [op |-> "getRemainingRequests", id |-> id,
                  result |-> Max(0, config.maxRequests - Len(ValidRequests(requests[id], now))),
                  stored |-> Len(requests[id])]
    /\ UNCHANGED <<now, config, sweepDue, cacheVars, appVars>>

GetResetTime(id) ==
    /\ rlLast' = [op |-> "getResetTime", id |-> id, result |-> ResetTime(requests[id]),
                  stored |-> Len(requests[id])]
    /\ UNCHANGED <<now, config, requests, sweepDue, cacheVars, appVars>>

\* getStatus: getRemainingRequests, then getResetTime on the pruned records
GetStatus(id) ==
    /\ requests' = [requests EXCEPT ![id] = ValidRequests(@, now)]
    /\ rlLast' = [op |-> "getStatus", id |-> id,
                  result |-> [limit |-> config.maxRequests,
                              remaining |-> Max(0, config.maxRequests
                                                   - Len(ValidRequests(requests[id], now))),
                              resetTimeMs |-> ResetTime(ValidRequests(requests[id], now))],
                  stored |-> Len(requests[id])]
    /\ UNCHANGED <<now, config, sweepDue, cacheVars, appVars>>

\* mutant: reset forgets the records of every identifier
ResetEveryone(id) ==
    /\ requests' = [i \in DOMAIN requests |-> <<>>]
    /\ rlLast' = [op |-> "reset", id |-> id, result |-> Null, stored |-> Len(requests[id])]
    /\ UNCHANGED <<now, config, sweepDue, cacheVars, appVars>>

Reset(id) ==
    /\ requests' = [requests EXCEPT ![id] = <<>>]
    /\ rlLast' = [op |-> "reset", id |-> id, result |-> Null, stored |-> Len(requests[id])]
    /\ UNCHANGED <<now, config, sweepDue, cacheVars, appVars>>

ResetAll ==
    /\ requests' = [id \in DOMAIN requests |-> <<>>]
    /\ rlLast' = [op |-> "resetAll", id |-> Null, result |-> Null, stored |-> 0]
    /\ UNCHANGED <<now, config, sweepDue, cacheVars, appVars>>

\* mutant: the timer callback re-arms and reclaims nothing
SweepReclaimsNothing ==
    /\ timers.limiter
    /\ now >= sweepDue
    /\ sweepDue' = sweepDue + SweepIntervalMs
    /\ rlLast' = [op |-> "cleanup", id |-> Null, result |-> Null, stored |-> 0, reclaimed |-> {}]
    /\ UNCHANGED <<now, config, requests, cacheVars, appVars>>

\* the setInterval callback
Sweep ==
    /\ timers.limiter
    /\ now >= sweepDue
    /\ requests' = [id \in DOMAIN requests |-> ValidRequests(requests[id], now)]
    /\ sweepDue' = sweepDue + SweepIntervalMs
    /\ rlLast' = [op |-> "cleanup", id |-> Null, result |-> Null, stored |-> 0,
                  reclaimed |-> {id \in DOMAIN requests : requests'[id] # requests[id]}]
    /\ UNCHANGED <<now, config, cacheVars, appVars>>

\* RateLimiter.destroy: clearInterval(this.cleanupInterval), then resetAll()
DestroyLimiter ==
    /\ timers' = [timers EXCEPT !.limiter = FALSE]
    /\ requests' = [id \in DOMAIN requests |-> <<>>]
    /\ rlLast' = [op |-> "destroy", id |-> Null, result |-> Null, stored |-> 0]
    /\ UNCHANGED <<now, config, sweepDue, cacheVars, srv, googleKey, an, quality, heap>>

\* time passes; a due timer callback runs before the clock moves on
RateAdvance ==
    /\ timers.limiter => now < sweepDue
    /\ now + RateStepMs <= MaxRateSteps * RateStepMs
    /\ now' = now + RateStepMs
    /\ rlLast' = NoOp
    /\ UNCHANGED <<config, requests, sweepDue, cacheVars, appVars>>

----------------------------------------------------------------------------
(* PropertyDevelopmentServer: the CallTool handler *)

\* `const clientId = 'default'`: every tool call is charged to one identifier
ClientId == 1

ToolNames == {"analyze_property", "generate_development_report", "unknown_tool"}

NoServerCalls == [executed |-> <<>>, last |-> NoOp]

\* what the handler does with a call of tool name that passed the rate check
Dispatch(name) ==
    IF name = "analyze_property" THEN "analyzeProperty"
    ELSE IF name = "generate_development_report" THEN "generateReport"
    ELSE "error"

\* the instants, still inside the window, at which a tool call was executed
RecentlyExecuted(log) == SelectSeq(log, LAMBDA t : now - t < WindowMs)

\* the limiter's records after the handler's rate check: canMakeRequest prunes
\* and counts; the handler never calls recordRequest
RecordsAfterCheck(id) == ValidRequests(requests[id], now)

\* the CallToolRequestSchema handler, for a call of tool name
CallTool(name) ==
    LET admitted == Allowed(Len(ValidRequests(requests[ClientId], now)))
        reached == IF admitted THEN Dispatch(name) ELSE "rateLimited"
    IN  /\ Len(RecentlyExecuted(srv.executed)) < MaxServerCalls
        /\ requests' = [requests EXCEPT ![ClientId] = RecordsAfterCheck(ClientId)]
        /\ rlLast' = [op |-> "canMakeRequest", id |-> ClientId, result |-> admitted,
                      stored |-> Len(requests[ClientId]), streak |-> Streak(ClientId, admitted)]
        /\ srv' = [executed |-> IF reached \in {"analyzeProperty", "generateReport"}
                                THEN Append(RecentlyExecuted(srv.executed), now)
                                ELSE RecentlyExecuted(srv.executed),
                   last |-> [op |-> "callTool", name |-> name, reached |-> reached]]
        /\ UNCHANGED <<now, config, sweepDue, cacheVars, googleKey, an, quality, heap, timers>>

\* the function returned by RateLimiter.middleware(), called for a request of
\* identifier id (req.ip): a refused request is answered with 429; an admitted
\* one goes through recordRequest(identifier, true) and getStatus to next().
\* srv.last.passed is, for each identifier, the log of the instants less than
\* windowMs ago at which its requests reached next().
PassedBy(id) ==
    IF srv.last.op = "middleware" THEN RecentlyExecuted(srv.last.passed[id]) ELSE <<>>

Middleware(id) ==
    LET valid == ValidRequests(requests[id], now)
        admitted == Allowed(Len(valid))
        recorded == IF admitted /\ ~Skips(TRUE)
                    THEN Append(valid, [timestamp |-> now, success |-> TRUE])
                    ELSE valid
    IN  /\ Len(PassedBy(id)) < MaxServerCalls
        /\ requests' = [requests EXCEPT ![id] = recorded]
        /\ rlLast' = [op |-> "middleware", id |-> id, result |-> admitted,
                      stored |-> Len(requests[id]),
                      status |-> IF admitted THEN 200 ELSE 429,
                      next |-> admitted,
                      appended |-> Len(recorded) - Len(valid),
                      remaining |-> Max(0, config.maxRequests - Len(recorded))]
        /\ srv' = [executed |-> srv.executed,
                   last |-> [op |-> "middleware", id |-> id, reached |-> admitted,
                             passed |-> [i \in DOMAIN requests |->
                                            IF i = id /\ admitted THEN Append(PassedBy(i), now)
                                            ELSE PassedBy(i)]]]
        /\ UNCHANGED <<now, config, sweepDue, cacheVars, googleKey, an, quality, heap, timers>>

----------------------------------------------------------------------------
(* PropertyAnalyzer *)

\* the subject of the analyze calls
Addresses == {1}

\* dataPromises, in the order of the array
ProviderOrder ==
    <<"details", "planning", "comparables", "market", "transport", "amenities", "restrictions">>

Providers == {ProviderOrder[i] : i \in 1 .. Len(ProviderOrder)}

\* the cache key of a provider call for a subject (`details_${address}`, ...),
\* and of the seed (`coords_${postcode}`)
CacheKey(name, address) == <<name, address>>

\* values, reduced to what the analyzer looks at: where the value comes from,
\* its length or sample size (n) and its number of comparables rated High
Value(src, n, high) == [src |-> src, n |-> n, high |-> high]
Empty == Value("empty", 0, 0)
Scraped == Value("scraped", 1, 0)
Estimated == Value("estimated", 1, 0)
DefaultPropertyDetails == Value("default", 0, 0)
MockPlanningHistory == Value("mock", 2, 0)
GeneratedMarketData == Value("generated", 25, 0)
DefaultMarketData == Value("default", 10, 0)
NoRestrictions == Value("none", 0, 0)
Coordinates == Value("coordinates", 1, 0)
LandRegistry(n, high) == IF n = 0 THEN Empty ELSE Value("landRegistry", n, high)
Places == Value("places", 1, 0)

\* the defaultValue that analyze passes to extractResult for each provider
DefaultValue(p) ==
    CASE p = "details" -> DefaultPropertyDetails
      [] p = "market" -> DefaultMarketData
      [] p = "restrictions" -> NoRestrictions
      [] OTHER -> Empty

\* the providers whose method sends an outbound request on a cache miss
Fetches(p) == p \in {"details", "comparables"} \/ (p \in {"transport", "amenities"} /\ googleKey)

\* mutant: a provider that sends no request answers with the default value
ComputedAsDefault(p) == DefaultValue(p)

\* what a provider that sends no request computes on a cache miss
Computed(p) ==
    CASE p = "planning" -> MockPlanningHistory
      [] p = "market" -> GeneratedMarketData
      [] p = "restrictions" -> NoRestrictions
      [] OTHER -> Empty

\* the ways the outbound requests of a provider can end, with the value the
\* provider's own handlers make of it: failed is TRUE when a request of the
\* provider failed or timed out
Outcomes(p) ==
    CASE p = "details" ->
            {[failed |-> FALSE, value |-> Scraped],      \* Rightmove answered with a price
             [failed |-> TRUE, value |-> Estimated]}     \* scrapeRightmoveDetails caught, null
      [] p = "comparables" ->
            {[failed |-> FALSE, value |-> LandRegistry(5, 2)],
             [failed |-> TRUE, value |-> Empty]}         \* getLandRegistryComparables caught, []
      [] p = "transport" ->
            {[failed |-> FALSE, value |-> Places], [failed |-> TRUE, value |-> Empty]}
      [] p = "amenities" ->
            {[failed |-> FALSE, value |-> Places],
             [failed |-> TRUE, value |-> Empty]}         \* every amenity type caught
      [] OTHER -> {}

\* the providers that reach their cache.set after a failed request: the failure
\* is caught below the provider method (scrapeRightmoveDetails,
\* getLandRegistryComparables, the loop of getLocalAmenities); the request of
\* getTransportLinks fails into the catch of the method, past its cache.set
CachesFallback(p) == p \in {"details", "comparables", "amenities"}

NotIssued == [status |-> "notIssued", value |-> Empty, failed |-> FALSE]
Pending == [status |-> "pending", value |-> Empty, failed |-> FALSE]

\* mutant: the promise of a provider method never settles
FulfilledNever(v) == [status |-> "pending", value |-> Empty, failed |-> FALSE]

Fulfilled(v) == [status |-> "fulfilled", value |-> v, failed |-> FALSE]

\* mutant: a provider lets the failure of its request escape
OnFetchFailureRethrow(v) == [status |-> "rejected", value |-> v, failed |-> TRUE]

\* the try/catch of the provider methods: a failed request ends in a fulfilled
\* promise that carries the value of the catch block
OnFetchFailure(v) == [status |-> "fulfilled", value |-> v, failed |-> TRUE]

NoResult == [returned |-> FALSE]
NoError == [thrown |-> FALSE]

NoAnalysis ==
    [pc |-> "idle", mode |-> "none", address |-> 0, seed |-> "none",
     provider |-> [p \in Providers |-> NotIssued], result |-> NoResult, error |-> NoError,
     count |-> 0]

\* `if (cached)` after cache.get(key): every cached value is an object or an array
CacheHit(c, k) == MapHas(c, k) /\ ~Expired(MapGet(c, k), now)

\* the analyzer only calls set(key, value), without ttl
LeaseOfSets(c) ==
    [k \in KeysOf(c) |-> [kind |-> "set", arg |-> NoArg, at |-> MapGet(c, k).timestamp]]

\* mutant: the score is truncated instead of rounded
OverallScoreTruncated(sum) == (sum * 100) \div 9

\* overallScore: Math.round((avgScore / 3) * 100), avgScore = sum / 3
OverallScore(sum) == (sum * 200 + 9) \div 18

\* mutant: High scores no more than Medium
QualityScoreFlat(q) == CASE q = "Low" -> 1 [] OTHER -> 2

QualityScore(q) == CASE q = "High" -> 3 [] q = "Medium" -> 2 [] OTHER -> 1

AssessDataQuality(comparables, marketData, planningHistory) ==
    LET comparablesQuality == IF comparables.n >= 5 /\ comparables.high >= 2 THEN "High"
                              ELSE IF comparables.n >= 3 THEN "Medium" ELSE "Low"
        marketDataQuality == IF marketData.n >= 20 THEN "High"
                             ELSE IF marketData.n >= 10 THEN "Medium" ELSE "Low"
        planningDataQuality == IF planningHistory.n > 0 THEN "Medium" ELSE "Low"
    IN  [overallScore |-> OverallScore(QualityScore(comparablesQuality)
                                       + QualityScore(marketDataQuality)
                                       + QualityScore(planningDataQuality)),
         comparablesQuality |-> comparablesQuality,
         marketDataQuality |-> marketDataQuality,
         planningDataQuality |-> planningDataQuality,
         warnings |->
            (IF comparablesQuality = "Low"
             THEN <<"Limited comparable sales data available">> ELSE <<>>)
            \o (IF marketDataQuality = "Low"
                THEN <<"Market data based on limited sample size">> ELSE <<>>)
            \o (IF planningDataQuality = "Low"
                THEN <<"No planning history data available">> ELSE <<>>)]

NoAssessment == [pc |-> "idle"]

\* the arguments of assessDataQuality: a list of comparables, n long with high
\* of them rated High, market data with a sample size, and a planning history
QualityInputs ==
    {[comparables |-> Value("input", n, high), marketData |-> Value("input", 5 * s, 0),
      planningHistory |-> Value("input", h, 0)] :
        n \in 0 .. MaxComparables, high \in 0 .. MaxComparables, s \in 0 .. MaxSampleSteps,
        h \in 0 .. MaxPlanning}

\* assessDataQuality is called on the arguments a and on the arguments b
Assess ==
    /\ quality.pc = "called"
    /\ quality' = [pc |-> "returned", a |-> quality.a, b |-> quality.b,
                   resultA |-> AssessDataQuality(quality.a.comparables, quality.a.marketData,
                                                 quality.a.planningHistory),
                   resultB |-> AssessDataQuality(quality.b.comparables, quality.b.marketData,
                                                 quality.b.planningHistory)]
    /\ UNCHANGED <<now, cacheVars, rlVars, srv, googleKey, an, heap, timers>>

\* extractResult(result, defaultValue)
ExtractResult(r, defaultValue) == IF r.status = "fulfilled" THEN r.value ELSE defaultValue

\* mutant: the basic branch passes on the comparables that the provider returned
BasicResultWithComparables(pr) ==
    [returned |-> TRUE,
     details |-> pr["details"].value,
     planning |-> Empty,
     comparables |-> pr["comparables"].value,
     market |-> DefaultMarketData,
     transport |-> Empty,
     amenities |-> Empty,
     restrictions |-> pr["restrictions"].value,
     dataQuality |-> [overallScore |-> 60, comparablesQuality |-> "Low",
                      marketDataQuality |-> "Low", planningDataQuality |-> "Low",
                      warnings |-> <<"Basic analysis - limited data gathered">>]]

\* the object built by the basic branch
BasicResult(pr) ==
    [returned |-> TRUE,
     details |-> pr["details"].value,
     planning |-> Empty,
     comparables |-> Empty,
     market |-> DefaultMarketData,
     transport |-> Empty,
     amenities |-> Empty,
     restrictions |-> pr["restrictions"].value,
     dataQuality |-> [overallScore |-> 60, comparablesQuality |-> "Low",
                      marketDataQuality |-> "Low", planningDataQuality |-> "Low",
                      warnings |-> <<"Basic analysis - limited data gathered">>]]

\* the object built by the comprehensive branch
ComprehensiveResult(pr) ==
    LET final == [p \in Providers |-> ExtractResult(pr[p], DefaultValue(p))]
    IN  [returned |-> TRUE,
         details |-> final["details"],
         planning |-> final["planning"],
         comparables |-> final["comparables"],
         market |-> final["market"],
         transport |-> final["transport"],
         amenities |-> final["amenities"],
         restrictions |-> final["restrictions"],
         dataQuality |-> AssessDataQuality(final["comparables"], final["market"], final["planning"])]

\* mutant: the provider method skips its cache and always does its work
IssueOneUnchecked(st, p, address) ==
    LET k == CacheKey(p, address)
    IN  IF Fetches(p)
        THEN [cache |-> st.cache, provider |-> [st.provider EXCEPT ![p] = Pending]]
        ELSE [cache |-> SetStore(st.cache, k, Computed(p), NoArg),
              provider |-> [st.provider EXCEPT ![p] = Fulfilled(Computed(p))]]

\* one provider method, run up to its first await: the cache is read, and on a
\* miss either the request goes out or the value is computed and stored
IssueOne(st, p, address) ==
    LET k == CacheKey(p, address)
        c == GetStore(st.cache, k)
    IN  IF CacheHit(st.cache, k)
        THEN [cache |-> c, provider |-> [st.provider EXCEPT ![p] = Fulfilled(MapGet(st.cache, k).data)]]
        ELSE IF Fetches(p)
        THEN [cache |-> c, provider |-> [st.provider EXCEPT ![p] = Pending]]
        ELSE [cache |-> SetStore(c, k, Computed(p), NoArg),
              provider |-> [st.provider EXCEPT ![p] = Fulfilled(Computed(p))]]

\* `const dataPromises = [ ... ]`: the seven provider methods are called in order
RECURSIVE IssueAll(_, _, _)
IssueAll(st, ps, address) ==
    IF ps = <<>> THEN st
    ELSE IssueAll(IssueOne(st, Head(ps), address), Tail(ps), address)

\* mutant: the first provider call goes out while the seed is being resolved
ProvidersAtStartEager(address) == [[p \in Providers |-> NotIssued] EXCEPT !["details"] = Pending]

\* the provider calls of an analyze call that is resolving its seed
ProvidersAtStart(address) == [p \in Providers |-> NotIssued]

\* analyze(address, mode) up to the await in getCoordinates; on cached
\* coordinates the call goes on to the fan-out
AnalyzeStart(address, mode) ==
    LET k == CacheKey("coords", address)
        c == GetStore(cache, k)
        fan == IssueAll([cache |-> c, provider |-> ProvidersAtStart(address)], ProviderOrder, address)
    IN  /\ an.pc \in {"idle", "returned", "thrown"}
        /\ \A p \in Providers : an.provider[p].status # "pending"
        /\ an.count < MaxAnalyses
        /\ IF CacheHit(cache, k)
           THEN /\ cache' = fan.cache
                /\ an' = [pc |-> "fanout", mode |-> mode, address |-> address, seed |-> "cached",
                          provider |-> fan.provider, result |-> NoResult, error |-> NoError,
                          count |-> an.count + 1]
           ELSE /\ cache' = c
                /\ an' = [pc |-> "seed", mode |-> mode, address |-> address, seed |-> "pending",
                          provider |-> ProvidersAtStart(address), result |-> NoResult,
                          error |-> NoError, count |-> an.count + 1]
        /\ lease' = LeaseOfSets(cache')
        /\ UNCHANGED <<now, maxSize, cleanupDue, inflight, lastOp, rlVars, srv, googleKey, quality, heap, timers>>

\* mutant: a failed geocoding request is replaced by default coordinates
OnSeedFailureProceed(a) ==
    LET fan == IssueAll([cache |-> cache, provider |-> a.provider], ProviderOrder, a.address)
    IN  [cache |-> fan.cache,
         an |-> [a EXCEPT !.pc = "fanout", !.seed = "failed", !.provider = fan.provider]]

\* the catch of getCoordinates and the catch of analyze: both rethrow
OnSeedFailure(a) ==
    [cache |-> cache,
     an |-> [a EXCEPT !.pc = "thrown", !.seed = "failed",
                      !.error = [thrown |-> TRUE,
                                 message |-> "Property analysis failed: Could not geocode address: ",
                                 address |-> a.address]]]

\* the geocoding request settles
SeedSettle(ok) ==
    LET k == CacheKey("coords", an.address)
        c == SetStore(cache, k, Coordinates, NoArg)
        fan == IssueAll([cache |-> c, provider |-> an.provider], ProviderOrder, an.address)
        next == IF ok
                THEN [cache |-> fan.cache,
                      an |-> [an EXCEPT !.pc = "fanout", !.seed = "ok", !.provider = fan.provider]]
                ELSE OnSeedFailure(an)
    IN  /\ an.pc = "seed"
        /\ cache' = next.cache
        /\ an' = next.an
        /\ lease' = LeaseOfSets(cache')
        /\ UNCHANGED <<now, maxSize, cleanupDue, inflight, lastOp, rlVars, srv, googleKey, quality, heap, timers>>

\* the outbound requests of provider p end with outcome o; the rest of the
\* provider method runs
ProviderSettle(p, o) ==
    /\ an.provider[p].status = "pending"
    /\ o \in Outcomes(p)
    /\ cache' = IF o.failed /\ ~CachesFallback(p) THEN cache
                ELSE SetStore(cache, CacheKey(p, an.address), o.value, NoArg)
    /\ an' = [an EXCEPT !.provider[p] = IF o.failed THEN OnFetchFailure(o.value)
                                        ELSE Fulfilled(o.value)]
    /\ lease' = LeaseOfSets(cache')
    /\ UNCHANGED <<now, maxSize, cleanupDue, inflight, lastOp, rlVars, srv, googleKey, quality, heap, timers>>

\* mutant: the comprehensive branch too awaits only the two mandatory promises
AwaitedMandatoryOnly(mode) == {"details", "restrictions"}

\* the promises that analyze awaits: Promise.all of two of them in the basic
\* branch, Promise.allSettled of all seven otherwise
Awaited(mode) == IF mode = "basic" THEN {"details", "restrictions"} ELSE Providers

\* Promise.all rejects when one of its promises rejects; Promise.allSettled never does
Rejects(a) ==
    a.mode = "basic" /\ \E p \in Awaited(a.mode) : a.provider[p].status = "rejected"

\* the await of analyze resumes: the result is built and returned, or the
\* rejection is caught and rethrown
AnalyzeFinish ==
    /\ an.pc = "fanout"
    /\ \/ Rejects(an)
       \/ \A p \in Awaited(an.mode) : an.provider[p].status \in {"fulfilled", "rejected"}
    /\ an' = IF Rejects(an)
             THEN [an EXCEPT !.pc = "thrown",
                             !.error = [thrown |-> TRUE,
                                        message |-> "Property analysis failed: ",
                                        address |-> 0]]
             ELSE [an EXCEPT !.pc = "returned",
                             !.result = IF an.mode = "basic" THEN BasicResult(an.provider)
                                        ELSE ComprehensiveResult(an.provider)]
    /\ UNCHANGED <<now, cacheVars, rlVars, srv, googleKey, quality, heap, timers>>

----------------------------------------------------------------------------
(* ReportGenerator and PropertyDevelopmentServer.generateReport *)

\* the object that a PropertyAnalyzer is given as its cache, reduced to the
\* methods the analyzer calls on it: the server passes `new CacheService()`,
\* the ReportGenerator passes `{} as any`
ServerCacheObject == [get |-> TRUE, set |-> TRUE]
ReportCacheObject == [get |-> FALSE, set |-> FALSE]

\* getCoordinates on an analyzer whose cache is obj: calling a method that obj
\* does not have is a TypeError inside the try block, which the catch turns
\* into `Could not geocode address`, like a failed geocoding request
GetCoordinatesThrows(obj, cached, geocodeOk) ==
    \/ ~obj.get
    \/ ~cached /\ ~geocodeOk
    \/ ~cached /\ geocodeOk /\ ~obj.set

ReportTypes == {"full", "summary", "feasibility"}

\* `report_${address}_${reportType}_${targetProfit}`, for the default targetProfit
ReportKeyName(reportType) ==
    CASE reportType = "summary" -> "report_summary"
      [] reportType = "feasibility" -> "report_feasibility"
      [] OTHER -> "report_full"

\* ReportGenerator.generate: analyze on the generator's own analyzer, then the
\* report text; every error is rethrown as `Failed to generate report: ...`
Generate(reportType, geocodeOk) ==
    IF GetCoordinatesThrows(ReportCacheObject, FALSE, geocodeOk)
    THEN [isError |-> TRUE,
          text |-> "Error: Failed to generate report: Property analysis failed: Could not geocode address: "]
    ELSE [isError |-> FALSE, text |-> ReportKeyName(reportType)]

\* the generate_development_report tool: generateReport and the catch of the
\* CallTool handler; geocodeOk tells whether postcodes.io would answer
GenerateReport(address, reportType, geocodeOk) ==
    LET k == CacheKey(ReportKeyName(reportType), address)
        c == GetStore(cache, k)
        generated == Generate(reportType, geocodeOk)
    IN  /\ Len(RecentlyExecuted(srv.executed)) < MaxServerCalls
        /\ cache' = IF CacheHit(cache, k) \/ generated.isError THEN c
                    ELSE SetStore(c, k, generated.text, NoArg)
        /\ lease' = LeaseOfSets(cache')
        /\ srv' = [executed |-> Append(RecentlyExecuted(srv.executed), now),
                   last |-> [op |-> "generateReport", reportType |-> reportType,
                             geocodeOk |-> geocodeOk, cached |-> CacheHit(cache, k),
                             isError |-> ~CacheHit(cache, k) /\ generated.isError,
                             text |-> IF CacheHit(cache, k) THEN MapGet(cache, k).data
                                      ELSE generated.text]]
        /\ UNCHANGED <<now, maxSize, cleanupDue, inflight, lastOp, rlVars, googleKey, an, quality,
                       heap, timers>>

----------------------------------------------------------------------------
(* PropertyDevelopmentServer.analyzeProperty *)

AnalysisTypes == {"basic", "comprehensive"}

\* `analysis_${address}_${analysisType}`
AnalysisKeyName(analysisType) ==
    IF analysisType = "basic" THEN "analysis_basic" ELSE "analysis_comprehensive"

\* an analyze_property call is between its cache miss and its response
Analyzing == srv.last.op = "analyzeProperty" /\ srv.last.pc = "analyzing"

\* the call has read its cache and not yet entered analyze
AboutToAnalyze == Analyzing /\ an.count < srv.last.call

\* mutant: analyzeProperty never answers from the cache
ServedFromCacheNever(c, k) == FALSE

\* `if (cached)` in analyzeProperty: the stored analysis is an object
ServedFromCache(c, k) == CacheHit(c, k)

\* analyzeProperty up to its call of analyze: the cache is read, and a stored
\* analysis is the response
AnalyzeProperty(address, analysisType) ==
    LET k == CacheKey(AnalysisKeyName(analysisType), address)
        hit == ServedFromCache(cache, k)
    IN  /\ ~Analyzing
        /\ an.pc \in {"idle", "returned", "thrown"}
        /\ \A p \in Providers : an.provider[p].status # "pending"
        /\ Len(RecentlyExecuted(srv.executed)) < MaxServerCalls
        /\ ~hit => an.count < MaxAnalyses
        /\ cache' = GetStore(cache, k)
        /\ lease' = LeaseOfSets(cache')
        /\ srv' = [executed |-> Append(RecentlyExecuted(srv.executed), now),
                   last |-> [op |-> "analyzeProperty", address |-> address,
                             analysisType |-> analysisType,
                             pc |-> IF hit THEN "responded" ELSE "analyzing",
                             cached |-> hit, isError |-> FALSE,
                             text |-> IF hit THEN MapGet(cache, k).data ELSE NoResult,
                             call |-> IF hit THEN an.count ELSE an.count + 1]]
        /\ UNCHANGED <<now, maxSize, cleanupDue, inflight, lastOp, rlVars, googleKey, an, quality,
                       heap, timers>>

\* analyzeProperty after `await this.propertyAnalyzer.analyze(...)`: the
\* analysis is stored and is the response; a thrown error is rethrown and the
\* CallTool handler answers with isError
AnalyzePropertyResume ==
    LET k == CacheKey(AnalysisKeyName(srv.last.analysisType), srv.last.address)
    IN  /\ Analyzing
        /\ an.count = srv.last.call
        /\ an.pc \in {"returned", "thrown"}
        /\ cache' = IF an.pc = "returned" THEN SetStore(cache, k, an.result, NoArg) ELSE cache
        /\ lease' = LeaseOfSets(cache')
        /\ srv' = [srv EXCEPT !.last.pc = "responded",
                              !.last.isError = (an.pc = "thrown"),
                              !.last.text = IF an.pc = "returned" THEN an.result ELSE NoResult]
        /\ UNCHANGED <<now, maxSize, cleanupDue, inflight, lastOp, rlVars, googleKey, an, quality,
                       heap, timers>>

----------------------------------------------------------------------------

CacheInit ==
    /\ now = 0
    /\ cache = <<>>
    /\ cleanupDue = CleanupIntervalMs
    /\ lease = <<>>
    /\ inflight = [p \in Calls |-> Idle]
    /\ lastOp = NoOp
    /\ requests = [id \in Ids |-> <<>>]
    /\ sweepDue = SweepIntervalMs
    /\ rlLast = NoOp
    /\ srv = NoServerCalls
    /\ an = NoAnalysis
    /\ quality = NoAssessment
    /\ heap = NoObjects
    /\ timers = TimersRunning

vars == <<now, maxSize, cache, cleanupDue, lease, inflight, lastOp, config, requests, sweepDue, rlLast,
          srv, googleKey, an, quality, heap, timers>>

----------------------------------------------------------------------------
(* Spec: the calls of CacheService on a small store.  Key 1 receives every  *)
(* call with every argument; the other keys are set, which is how they act *)
(* on key 1 (capacity eviction); the cleanup timer fires when it is due.   *)

Init ==
    /\ CacheInit
    /\ googleKey = FALSE
    /\ maxSize = SmallMaxSize
    /\ config = DefaultConfig

Next ==
    \/ \E v \in Values, t \in TtlArgs : Set(1, v, t)
    \/ \E k \in Keys \ {1} : Set(k, 1, NoArg)
    \/ Get(1)
    \/ Has(1)
    \/ Delete(1)
    \/ \E t \in TtlArgs : Refresh(1, t)
    \/ Clear
    \/ Cleanup
    \/ CacheAdvance(MaxCacheMinutes)

Spec == Init /\ [][Next]_vars

----------------------------------------------------------------------------
(* EvictSpec: a store of LargeMaxSize entries, filled by setMultiple, so    *)
(* that one eviction removes more than one entry.                           *)

EvictInit ==
    /\ CacheInit
    /\ googleKey = FALSE
    /\ maxSize = LargeMaxSize
    /\ config = DefaultConfig

EvictNext ==
    \/ \E k \in Keys : Set(k, 1, NoArg)
    \/ Get(1)
    \/ SetMultiple
    \/ Clear
    \/ CacheAdvance(MaxEvictMinutes)

EvictSpec == EvictInit /\ [][EvictNext]_vars

----------------------------------------------------------------------------
(* RaceSpec: concurrent getOrSet calls, suspended at `await fn()`.          *)

RaceNext ==
    \/ \E p \in Calls : GetOrSetStart(p, 1, NoArg)
    \/ \E p \in Calls, v \in Values : GetOrSetResolve(p, v)
    \/ \E p \in Calls : GetOrSetReject(p)
    \/ Delete(1)
    \/ Cleanup
    \/ CacheAdvance(MaxCacheMinutes)

RaceSpec == Init /\ [][RaceNext]_vars

----------------------------------------------------------------------------
(* RateSpec: the calls of RateLimiter, under each setting of the two skip   *)
(* options.                                                                 *)

RateInit ==
    /\ CacheInit
    /\ googleKey = FALSE
    /\ maxSize = SmallMaxSize
    /\ config \in {[DefaultConfig EXCEPT !.skipSuccessfulRequests = s, !.skipFailedRequests = f] :
                      s, f \in BOOLEAN}

RateNext ==
    \/ \E id \in Ids : CanMakeRequest(id)
    \/ \E id \in Ids, success \in BOOLEAN : RecordRequest(id, success)
    \/ \E id \in Ids : GetRemainingRequests(id)
    \/ \E id \in Ids : GetResetTime(id)
    \/ \E id \in Ids : GetStatus(id)
    \/ \E id \in Ids : Reset(id)
    \/ ResetAll
    \/ Sweep
    \/ RateAdvance

RateSpec == RateInit /\ [][RateNext]_vars

----------------------------------------------------------------------------
(* IsoSpec: two identifiers of one limiter.  Identifier 1 receives every    *)
(* call; identifier 2 only records requests, so that it has records that   *)
(* the calls on identifier 1 could disturb.                                *)

TwoIds == {1, 2}

IsoInit ==
    /\ now = 0
    /\ maxSize = SmallMaxSize
    /\ cache = <<>>
    /\ cleanupDue = CleanupIntervalMs
    /\ lease = <<>>
    /\ inflight = [p \in Calls |-> Idle]
    /\ lastOp = NoOp
    /\ config = DefaultConfig
    /\ requests = [id \in TwoIds |-> <<>>]
    /\ sweepDue = SweepIntervalMs
    /\ rlLast = NoOp
    /\ srv = NoServerCalls
    /\ googleKey = FALSE
    /\ an = NoAnalysis
    /\ quality = NoAssessment
    /\ heap = NoObjects
    /\ timers = TimersRunning

IsoNext ==
    \/ CanMakeRequest(1)
    \/ RecordRequest(1, TRUE)
    \/ GetRemainingRequests(1)
    \/ GetResetTime(1)
    \/ Reset(1)
    \/ RecordRequest(2, TRUE)
    \/ Sweep
    \/ RateAdvance

IsoSpec == IsoInit /\ [][IsoNext]_vars

----------------------------------------------------------------------------
(* ServerSpec: tool calls arriving at the server over time.                 *)

ServerNext ==
    \/ \E name \in ToolNames : CallTool(name)
    \/ Sweep
    \/ RateAdvance

ServerSpec == Init /\ [][ServerNext]_vars

----------------------------------------------------------------------------
(* AnalyzeSpec: analyze calls of PropertyAnalyzer, one after the other, over *)
(* a cache of LargeMaxSize entries, with and without a Google Places key.    *)

\* no analyze call is running and no provider call is pending
AtRest ==
    /\ an.pc \in {"idle", "returned", "thrown"}
    /\ \A p \in Providers : an.provider[p].status # "pending"

AnalyzeInit ==
    /\ CacheInit
    /\ maxSize = LargeMaxSize
    /\ config = DefaultConfig
    /\ googleKey \in BOOLEAN

AnalyzeNext ==
    \/ \E address \in Addresses, mode \in {"basic", "comprehensive"} : AnalyzeStart(address, mode)
    \/ \E ok \in BOOLEAN : SeedSettle(ok)
    \/ \E p \in Providers : \E o \in Outcomes(p) : ProviderSettle(p, o)
    \/ AnalyzeFinish
    \/ AtRest /\ CacheAdvance(MaxCacheMinutes)
    \/ Cleanup

AnalyzeSpec == AnalyzeInit /\ [][AnalyzeNext]_vars

\* every outbound request settles (it answers, fails or hits the timeout that
\* each axios call sets), and the event loop runs the continuation of analyze
\* once the promises it awaits have settled
AnalyzeFairness ==
    /\ WF_vars(\E ok \in BOOLEAN : SeedSettle(ok))
    /\ \A p \in Providers : WF_vars(\E o \in Outcomes(p) : ProviderSettle(p, o))
    /\ WF_vars(AnalyzeFinish)

AnalyzeLiveSpec == AnalyzeSpec /\ AnalyzeFairness

----------------------------------------------------------------------------
(* QualitySpec: assessDataQuality, a pure function, applied to two argument *)
(* lists drawn from QualityInputs.                                          *)

WellFormed(i) == i.comparables.high <= i.comparables.n

QualityInit ==
    /\ now = 0
    /\ maxSize = SmallMaxSize
    /\ cache = <<>>
    /\ cleanupDue = CleanupIntervalMs
    /\ lease = <<>>
    /\ inflight = [p \in Calls |-> Idle]
    /\ lastOp = NoOp
    /\ config = DefaultConfig
    /\ requests = [id \in Ids |-> <<>>]
    /\ sweepDue = SweepIntervalMs
    /\ rlLast = NoOp
    /\ srv = NoServerCalls
    /\ googleKey = FALSE
    /\ an = NoAnalysis
    /\ quality \in {[pc |-> "called", a |-> a, b |-> b] :
                       a \in {i \in QualityInputs : WellFormed(i)},
                       b \in {i \in QualityInputs : WellFormed(i)}}
    /\ heap = NoObjects
    /\ timers = TimersRunning

QualityNext == Assess

QualitySpec == QualityInit /\ [][QualityNext]_vars

----------------------------------------------------------------------------
(* SweepSpec: the cleanup timer of CacheService over two firings, on a      *)
(* store that holds entries of different ttl and age.                       *)

SweepNext ==
    \/ \E t \in TtlArgs : Set(1, 1, t)
    \/ \E k \in Keys \ {1} : Set(k, 1, NoArg)
    \/ Get(1)
    \/ Cleanup
    \/ CacheAdvance(MaxSweepMinutes)

SweepSpec == EvictInit /\ [][SweepNext]_vars

----------------------------------------------------------------------------
(* ShutdownSpec: a cache and a limiter that are used, destroyed, and used   *)
(* again while time passes the instants at which their timers were due.     *)

ShutdownNext ==
    \/ Set(1, 1, NoArg)
    \/ Get(1)
    \/ DestroyCache
    \/ Cleanup
    \/ RecordRequest(1, TRUE)
    \/ DestroyLimiter
    \/ Sweep
    \/ CacheAdvance(MaxSweepMinutes) /\ (timers.limiter => now < sweepDue)

ShutdownSpec == Init /\ [][ShutdownNext]_vars

----------------------------------------------------------------------------
(* ProducerSpec: getOrSet calls whose producer resolves with a value, with  *)
(* null, or rejects.                                                        *)

ProducerResults == Values \cup {Null}

ProducerNext ==
    \/ \E p \in Calls : GetOrSetStart(p, 1, NoArg)
    \/ \E p \in Calls, v \in ProducerResults : GetOrSetResolve(p, v)
    \/ \E p \in Calls : GetOrSetReject(p)
    \/ Cleanup
    \/ CacheAdvance(MaxCacheMinutes)

ProducerSpec == Init /\ [][ProducerNext]_vars

----------------------------------------------------------------------------
(* ReportSpec: generate_development_report calls arriving over time, with  *)
(* the geocoding service up or down.                                        *)

ReportNext ==
    \/ \E address \in Addresses, reportType \in ReportTypes, geocodeOk \in BOOLEAN :
          GenerateReport(address, reportType, geocodeOk)
    \/ Cleanup
    \/ CacheAdvance(MaxCacheMinutes)

ReportSpec == AnalyzeInit /\ [][ReportNext]_vars

----------------------------------------------------------------------------
(* ToolSpec: analyze_property calls, one after the other, on a server      *)
(* without a Google Places key, up to the first firing of the cleanup       *)
(* timer; each call that misses the cache runs analyze on the server's      *)
(* analyzer.                                                                *)

ToolInit == AnalyzeInit /\ ~googleKey

ToolNext ==
    \/ \E address \in Addresses, analysisType \in AnalysisTypes :
          AnalyzeProperty(address, analysisType)
    \/ AboutToAnalyze /\ AnalyzeStart(srv.last.address, srv.last.analysisType)
    \/ \E ok \in BOOLEAN : SeedSettle(ok)
    \/ \E p \in Providers : \E o \in Outcomes(p) : ProviderSettle(p, o)
    \/ AnalyzeFinish
    \/ AnalyzePropertyResume
    \/ AtRest /\ ~Analyzing /\ CacheAdvance(MaxCacheMinutes)

ToolSpec == ToolInit /\ [][ToolNext]_vars

----------------------------------------------------------------------------
(* MiddlewareSpec: requests passing through the middleware of a limiter,    *)
(* under each setting of the two skip options.                              *)

MiddlewareNext ==
    \/ \E id \in Ids : Middleware(id)
    \/ Sweep
    \/ RateAdvance

MiddlewareSpec == RateInit /\ [][MiddlewareNext]_vars

----------------------------------------------------------------------------
(* ResetSpec: two identifiers of one limiter, each recording requests and   *)
(* each being reset, alone or with resetAll.                                 *)

ResetNext ==
    \/ \E id \in TwoIds : RecordRequest(id, TRUE)
    \/ \E id \in TwoIds : Reset(id)
    \/ ResetAll
    \/ Sweep
    \/ RateAdvance

ResetSpec == IsoInit /\ [][ResetNext]_vars

----------------------------------------------------------------------------
(* StatsSpec: a store of LargeMaxSize entries, two keys of which are set,   *)
(* read, tested and refreshed while the cleanup timer runs.                 *)

StatsNext ==
    \/ Set(1, 1, <<MaxTtlArg>>)
    \/ Set(2, 1, NoArg)
    \/ \E k \in {1, 2} : Get(k)
    \/ \E k \in {1, 2} : Has(k)
    \/ Refresh(1, NoArg)
    \/ Cleanup
    \/ CacheAdvance(MaxCacheMinutes)

StatsSpec == EvictInit /\ [][StatsNext]_vars

----------------------------------------------------------------------------
(* RefSpec: the values passed to set are objects of the caller, who goes on *)
(* to change them.                                                          *)

RefInit ==
    /\ now = 0
    /\ maxSize = SmallMaxSize
    /\ cache = <<>>
    /\ cleanupDue = CleanupIntervalMs
    /\ lease = <<>>
    /\ inflight = [p \in Calls |-> Idle]
    /\ lastOp = NoOp
    /\ config = DefaultConfig
    /\ requests = [id \in Ids |-> <<>>]
    /\ sweepDue = SweepIntervalMs
    /\ rlLast = NoOp
    /\ srv = NoServerCalls
    /\ googleKey = FALSE
    /\ an = NoAnalysis
    /\ quality = NoAssessment
    /\ heap = [o \in Objects |-> 0]
    /\ timers = TimersRunning

RefNext ==
    \/ \E o \in Objects : Set(1, o, NoArg)
    \/ Get(1)
    \/ \E o \in Objects : Mutate(o)
    \/ Delete(1)
    \/ Cleanup
    \/ CacheAdvance(MaxCacheMinutes)

RefSpec == RefInit /\ [][RefNext]_vars

----------------------------------------------------------------------------
(* Properties of CacheService *)

\* the ttl, in milliseconds, that the caller of set or refresh asked for
RequestedTtl(ttlMinutes) ==
    IF ttlMinutes = NoArg THEN defaultTTL ELSE ttlMinutes[1] * 60 * 1000

\* a step that is the call op(k)
IsCall(op, k) == lastOp'.op = op /\ lastOp'.key = k

\* C1: get(key) right after set(key, value, ttl) returns value; once ttl has
\* elapsed since the set, with no refresh or new set in between, get(key)
\* returns null and the entry is gone from the store (has(key) is false).
C1_SetGetTtl ==
    [][\A k \in Keys :
          (MapHas(cache, k) /\ lease[k].kind = "set") =>
             /\ (IsCall("get", k) /\ now = lease[k].at)
                   => lastOp'.result = MapGet(cache, k).data
             /\ (IsCall("get", k) /\ now - lease[k].at > RequestedTtl(lease[k].arg))
                   => lastOp'.result = Null /\ ~MapHas(cache', k)
             /\ (IsCall("has", k) /\ now - lease[k].at > RequestedTtl(lease[k].arg))
                   => lastOp'.result = FALSE /\ ~MapHas(cache', k)]_vars

\* C2: an entry whose TTL has elapsed is removed by the next call that touches
\* its key (get, has or refresh), and get never returns its value.
C2_ExpiredRemovedOnTouch ==
    [][\A k \in Keys :
          (/\ MapHas(cache, k)
           /\ Expired(MapGet(cache, k), now)
           /\ (IsCall("get", k) \/ IsCall("has", k) \/ IsCall("refresh", k)))
          => /\ ~MapHas(cache', k)
             /\ IsCall("get", k) => lastOp'.result = Null]_vars

\* C3: the store never holds more than maxSize entries, and one set on a full
\* store removes at most max(1, floor(maxSize * 0.1)) entries.
C3_Capacity ==
    /\ Len(cache) <= maxSize
    /\ lastOp.op = "set" => Cardinality(lastOp.evicted) <= Max(1, maxSize \div 10)

C3_Witness ==
    /\ lastOp.op = "set"
    /\ Cardinality(lastOp.evicted) > 1
    /\ Len(cache) < maxSize

\* a ranks strictly lower than b: accessCount ascending, then lastAccessed ascending
RanksLower(a, b) ==
    \/ a.accessCount < b.accessCount
    \/ a.accessCount = b.accessCount /\ a.lastAccessed < b.lastAccessed

\* C4: a set that finds the store at maxSize evicts max(1, floor(maxSize * 0.1))
\* entries, and no entry is evicted while an entry that ranks strictly lower
\* (accessCount, then lastAccessed) stays in the store.
C4_EvictionOrder ==
    [][(lastOp'.op = "set" /\ Len(cache) >= maxSize) =>
          /\ Cardinality(lastOp'.evicted) = Max(1, maxSize \div 10)
          /\ lastOp'.evicted \subseteq KeysOf(cache)
          /\ KeysOf(cache') = (KeysOf(cache) \ lastOp'.evicted) \cup {lastOp'.key}
          /\ \A i, j \in 1 .. Len(cache) :
                (cache[i].key \in lastOp'.evicted /\ cache[j].key \notin lastOp'.evicted)
                   => ~RanksLower(cache[j], cache[i])]_vars

\* an eviction that took entries of the batch and spared an entry that was
\* accessed earlier than they were, because it had been read
C4_Witness ==
    /\ lastOp.op = "set"
    /\ lastOp.evicted # {}
    /\ lastOp.evicted \subseteq FillerKeys
    /\ \E i, j \in 1 .. Len(cache) :
          /\ cache[i].accessCount > 0
          /\ cache[j].key \in FillerKeys
          /\ cache[i].lastAccessed < cache[j].lastAccessed

\* C5: refresh(key, newTtl) on a stored key returns true and restarts the
\* entry's lifetime at the time of the call, so that get returns the value
\* until newTtl has elapsed since the refresh, also after the old expiry
\* instant; on an absent key it returns false and leaves the store unchanged.
C5_Refresh ==
    [][\A k \in Keys :
          /\ (IsCall("refresh", k) /\ MapHas(cache, k))
                => /\ lastOp'.result = TRUE
                   /\ KeysOf(cache') = KeysOf(cache)
                   /\ MapGet(cache', k).timestamp = now
                   /\ MapGet(cache', k).data = MapGet(cache, k).data
          /\ (IsCall("refresh", k) /\ ~MapHas(cache, k))
                => lastOp'.result = FALSE /\ cache' = cache
          /\ (/\ IsCall("get", k)
              /\ MapHas(cache, k)
              /\ lease[k].kind = "refresh"
              /\ now - lease[k].at < RequestedTtl(lease[k].arg))
                => lastOp'.result = MapGet(cache, k).data]_vars

\* get returned the value of a refreshed entry after its old expiry instant
C5_Witness ==
    /\ lastOp.op = "get"
    /\ lastOp.result # Null
    /\ MapHas(cache, lastOp.key)
    /\ lease[lastOp.key].kind = "refresh"
    /\ now > lease[lastOp.key].oldExpiry

\* C6: getOrSet does not de-duplicate concurrent misses: every call whose get
\* misses invokes its producer, whatever other calls are suspended on the same
\* key, so two calls on one absent key are both awaiting their producer.
C6_NoDedup ==
    lastOp.op = "getOrSet" =>
        IF lastOp.result = Null
        THEN inflight[lastOp.call] = [pc |-> "awaiting", key |-> lastOp.key, arg |-> NoArg]
        ELSE inflight[lastOp.call] = Idle

\* two calls suspended in their producers for the same key, nothing stored yet
C6_Witness ==
    \E p, q \in Calls :
        /\ p # q
        /\ inflight[p].pc = "awaiting"
        /\ inflight[q].pc = "awaiting"
        /\ inflight[p].key = inflight[q].key
        /\ ~MapHas(cache, inflight[p].key)

----------------------------------------------------------------------------
(* Properties of RateLimiter *)

\* the records of id that are inside the window at time t: age strictly below windowMs
Active(rs, t) == {i \in 1 .. Len(rs) : t - rs[i].timestamp < WindowMs}

\* a step that is the call op(id)
IsRateCall(op, id) == rlLast'.op = op /\ rlLast'.id = id

IsDefaultConfig == ~config.skipSuccessfulRequests /\ ~config.skipFailedRequests

\* C7: canMakeRequest(id) returns true iff fewer than maxRequests records of id
\* have an age strictly below windowMs; a record aged windowMs or more is not counted.
C7_CanMakeRequest ==
    [][\A id \in Ids :
          IsRateCall("canMakeRequest", id) =>
             (rlLast'.result <=> Cardinality(Active(requests[id], now)) < MaxRequests)]_vars

\* canMakeRequest said yes although maxRequests records were stored: one had aged out
C7_Witness ==
    /\ rlLast.op = "canMakeRequest"
    /\ rlLast.result
    /\ rlLast.stored >= MaxRequests

\* C8 as stated: from no records, maxRequests canMakeRequest calls in a row
\* succeed and the next one fails.
C8_CanMakeRequestCounts ==
    rlLast.op = "canMakeRequest" => rlLast.streak <= MaxRequests

\* C8 amended: canMakeRequest records nothing; under the default configuration
\* recordRequest is accepted iff fewer than maxRequests records are in the
\* window, each accepted call adds one record, a refused call adds none, so
\* maxRequests calls within one window are accepted and the next is refused,
\* and calls are accepted again once a record is windowMs old.
C8_SlidingWindow ==
    [][\A id \in Ids :
          LET before == Cardinality(Active(requests[id], now))
              after == Cardinality(Active(requests'[id], now))
          IN  /\ before <= MaxRequests
              /\ IsRateCall("canMakeRequest", id) => after = before
              /\ (IsRateCall("recordRequest", id) /\ IsDefaultConfig) =>
                    /\ rlLast'.result <=> before < MaxRequests
                    /\ after = IF before < MaxRequests THEN before + 1 ELSE before]_vars

\* a full window whose oldest record aged out: recordRequest is accepted again
C8_Witness ==
    /\ IsDefaultConfig
    /\ rlLast.op = "recordRequest"
    /\ rlLast.result
    /\ rlLast.stored = MaxRequests
    /\ Len(requests[rlLast.id]) = MaxRequests

\* C9 as stated: recordRequest returns true exactly when it appended a record,
\* under every configuration.
C9_TrueIffAppended ==
    [][\A id \in Ids :
          IsRateCall("recordRequest", id) =>
             (rlLast'.result <=>
                 Len(requests'[id]) = Cardinality(Active(requests[id], now)) + 1)]_vars

\* C9 amended: recordRequest returns whether admission held at the time of the
\* call; it appends one record, stamped with the time of the call, iff
\* admission held and the configuration does not skip the outcome; a refused
\* call appends nothing.
C9_RecordRequest ==
    [][\A id \in Ids :
          IsRateCall("recordRequest", id) =>
             LET before == Cardinality(Active(requests[id], now))
                 skipped == \/ rlLast'.success /\ config.skipSuccessfulRequests
                            \/ ~rlLast'.success /\ config.skipFailedRequests
             IN  /\ rlLast'.result <=> before < MaxRequests
                 /\ IF before < MaxRequests /\ ~skipped
                    THEN /\ Len(requests'[id]) = before + 1
                         /\ requests'[id][before + 1] =
                               [timestamp |-> now, success |-> rlLast'.success]
                    ELSE Len(requests'[id]) = before]_vars

\* an admitted call that returned true and recorded nothing
C9_Witness ==
    /\ rlLast.op = "recordRequest"
    /\ rlLast.result
    /\ rlLast.success
    /\ config.skipSuccessfulRequests
    /\ requests[rlLast.id] = <<>>

\* C10: getResetTime(id) is the time until the oldest record of id that is
\* inside the window ages out, and 0 when no record is inside the window.
C10_ResetTime ==
    rlLast.op = "getResetTime" =>
        LET rs == requests[rlLast.id]
            active == Active(rs, now)
        IN  IF active = {}
            THEN rlLast.result = 0
            ELSE \E i \in active :
                    /\ \A j \in active : rs[i].timestamp <= rs[j].timestamp
                    /\ rlLast.result = rs[i].timestamp + WindowMs - now

\* the answers the limiter would give for identifier id from the records rs
QueriesOf(rs) ==
    [canMakeRequest |-> Allowed(Len(ValidRequests(rs, now))),
     getRemainingRequests |-> Max(0, config.maxRequests - Len(ValidRequests(rs, now))),
     getResetTime |-> ResetTime(rs)]

\* C11: a call of canMakeRequest, recordRequest, getRemainingRequests,
\* getResetTime or reset on one identifier changes neither the stored records
\* of another identifier nor what canMakeRequest, getRemainingRequests and
\* getResetTime answer for that other identifier.
C11_Isolation ==
    [][\A a, b \in DOMAIN requests :
          (/\ a # b
           /\ rlLast'.op \in {"canMakeRequest", "recordRequest", "getRemainingRequests",
                               "getResetTime", "reset"}
           /\ rlLast'.id = a)
          => /\ requests'[b] = requests[b]
             /\ QueriesOf(requests'[b]) = QueriesOf(requests[b])]_vars

\* identifier 1 was reset, or refused, while identifier 2 holds a full window
C11_Witness ==
    /\ rlLast.op \in {"reset", "recordRequest"}
    /\ rlLast.id = 1
    /\ rlLast.stored = MaxRequests
    /\ Len(requests[2]) = MaxRequests
    /\ ~Allowed(Len(ValidRequests(requests[2], now)))

----------------------------------------------------------------------------
(* Properties of the server *)

\* C12: the server executes at most maxRequests tool calls of a client within
\* any window of 60 seconds; a call beyond the quota gets the rate limit
\* response and reaches neither analyzeProperty nor generateReport.
C12_ServerThrottles ==
    Len(RecentlyExecuted(srv.executed)) <= MaxRequests

----------------------------------------------------------------------------
(* Properties of PropertyAnalyzer *)

\* C13: when seed resolution fails (no cached coordinates and the geocoding
\* request fails), analyze throws, in either mode; no result is produced, no
\* provider call has been issued, and the message names the subject address.
C13_SeedFailureIsFatal ==
    an.seed = "failed" =>
        /\ an.pc = "thrown"
        /\ an.mode \in {"basic", "comprehensive"}
        /\ an.result = NoResult
        /\ \A p \in Providers : an.provider[p] = NotIssued
        /\ an.error.thrown
        /\ an.error.address = an.address
        /\ an.address \in Addresses

\* a basic call that threw on its seed, after an earlier call had run
C13_Witness ==
    /\ an.pc = "thrown"
    /\ an.seed = "failed"
    /\ an.mode = "basic"
    /\ an.count > 1

\* C14: only the seed error crosses the analyzer boundary: once the seed is
\* resolved, analyze ends by returning a result and never by throwing,
\* whichever provider requests fail, in basic and in comprehensive mode.
C14_OnlySeedErrorThrown ==
    [][/\ an'.pc = "thrown" => an'.seed = "failed"
       /\ (an.pc = "fanout" /\ an'.pc # "fanout")
             => /\ an'.pc = "returned"
                /\ an'.result.returned
                /\ an'.error = NoError]_vars

\* a basic call returned although the requests of both property details and
\* comparables had failed
C14_Witness ==
    /\ an.pc = "returned"
    /\ an.mode = "basic"
    /\ an.result.returned
    /\ an.provider["details"].failed
    /\ an.provider["comparables"].failed

\* C15: in basic mode, after seed resolution, only property details and the
\* restriction check are started; planning history, comparables, market data,
\* transport links and local amenities are not called.
C15_BasicQueriesMandatoryOnly ==
    an.mode = "basic" =>
        \A p \in Providers \ {"details", "restrictions"} : an.provider[p].status = "notIssued"

\* C16: in both modes, when analyze has returned its result, no provider call
\* that it issued is still pending.
C16_ReturnsAfterAllSettled ==
    an.pc = "returned" => \A p \in Providers : an.provider[p].status # "pending"

\* C17: within one analyze call the seed resolution (getCoordinates) has
\* completed, with coordinates, before any provider call is issued.
C17_SeedBeforeProviders ==
    (\E p \in Providers : an.provider[p].status # "notIssued") => an.seed \in {"ok", "cached"}

\* the geocoding request has answered and the provider requests are out
C17_Witness ==
    /\ an.pc = "fanout"
    /\ an.seed = "ok"
    /\ \E p \in Providers : an.provider[p].status = "pending"

\* the part of a result that provider p contributes
ResultField(r, p) ==
    CASE p = "details" -> r.details
      [] p = "planning" -> r.planning
      [] p = "comparables" -> r.comparables
      [] p = "market" -> r.market
      [] p = "transport" -> r.transport
      [] p = "amenities" -> r.amenities
      [] p = "restrictions" -> r.restrictions

\* C18: in comprehensive mode the seven provider calls are issued together;
\* the settling of one call, by success, failure or timeout, changes no
\* sibling call and does not end the analysis; analyze returns only when all
\* seven have settled, and each fulfilled call contributes its own value.
C18_SettleAll ==
    [][an'.mode = "comprehensive" =>
          /\ (an.pc # "fanout" /\ an'.pc = "fanout")
                => \A p \in Providers : an'.provider[p].status # "notIssued"
          /\ \A p \in Providers :
                (an.provider[p].status = "pending" /\ an'.provider[p].status # "pending")
                   => /\ \A q \in Providers \ {p} : an'.provider[q] = an.provider[q]
                      /\ an'.pc = an.pc
                      /\ an'.result = an.result
          /\ (an.pc = "fanout" /\ an'.pc # "fanout")
                => /\ an'.pc = "returned"
                   /\ \A p \in Providers :
                         /\ an.provider[p].status = "fulfilled"
                         /\ ResultField(an'.result, p) = an.provider[p].value]_vars

\* a comprehensive call returned with the values of the providers that
\* succeeded, next to a provider whose request had failed
C18_Witness ==
    /\ an.pc = "returned"
    /\ an.mode = "comprehensive"
    /\ an.provider["comparables"].failed
    /\ an.result.details = Scraped
    /\ an.result.transport = Places

\* the warnings of assessDataQuality that speak about provider p
WarningsAbout(p) ==
    CASE p = "comparables" -> {"Limited comparable sales data available"}
      [] p = "market" -> {"Market data based on limited sample size"}
      [] p = "planning" -> {"No planning history data available"}
      [] OTHER -> {}

\* C19: in the result of a comprehensive analyze, every provider whose request
\* failed or timed out contributes its default value, and the warnings hold an
\* entry that is about that provider.
C19_FailureDefaultAndWarning ==
    (an.pc = "returned" /\ an.mode = "comprehensive") =>
        \A p \in Providers :
            an.provider[p].failed =>
                /\ ResultField(an.result, p) = DefaultValue(p)
                /\ \E i \in 1 .. Len(an.result.dataQuality.warnings) :
                      an.result.dataQuality.warnings[i] \in WarningsAbout(p)

\* a comprehensive call has returned and every provider that sends requests
\* saw its request fail
EveryFetchFailed ==
    /\ an.pc = "returned"
    /\ an.mode = "comprehensive"
    /\ an.seed \in {"ok", "cached"}
    /\ \A p \in Providers : Fetches(p) => an.provider[p].failed

C21_BasicFixedScore ==
    (an.pc = "returned" /\ an.mode = "basic") =>
        /\ an.seed \in {"ok", "cached"}
        /\ an.result.dataQuality.overallScore = 60
        /\ an.result.planning = Empty
        /\ an.result.comparables = Empty
        /\ an.result.dataQuality.warnings = <<"Basic analysis - limited data gathered">>

\* a basic call returned while the cache held five comparables for the subject
\* and the request for the property details had failed
C21_Witness ==
    /\ an.pc = "returned"
    /\ an.mode = "basic"
    /\ an.provider["comparables"] = Fulfilled(LandRegistry(5, 2))
    /\ CacheHit(cache, CacheKey("comparables", an.address))
    /\ an.provider["details"].failed

----------------------------------------------------------------------------
(* Properties of assessDataQuality *)

\* the rating that the rubric gives to a list of n comparables, high of them rated High
ComparablesRating(n, high) ==
    IF n >= 5 /\ high >= 2 THEN "High" ELSE IF n >= 3 THEN "Medium" ELSE "Low"

MarketRating(sampleSize) ==
    IF sampleSize >= 20 THEN "High" ELSE IF sampleSize >= 10 THEN "Medium" ELSE "Low"

PlanningRating(length) == IF length > 0 THEN "Medium" ELSE "Low"

Points(rating) == IF rating = "High" THEN 3 ELSE IF rating = "Medium" THEN 2 ELSE 1

\* score is the integer nearest to (sum / 3 / 3) * 100
IsRounded(score, sum) == 2 * (9 * score - 100 * sum) \in (-8) .. 9

FollowsRubric(i, r) ==
    /\ r.comparablesQuality = ComparablesRating(i.comparables.n, i.comparables.high)
    /\ r.marketDataQuality = MarketRating(i.marketData.n)
    /\ r.planningDataQuality = PlanningRating(i.planningHistory.n)
    /\ IsRounded(r.overallScore, Points(r.comparablesQuality) + Points(r.marketDataQuality)
                                    + Points(r.planningDataQuality))

LowQualityFixture ==
    [comparables |-> Value("input", 1, 0), marketData |-> Value("input", 5, 0),
     planningHistory |-> Value("input", 0, 0)]

HighQualityFixture ==
    [comparables |-> Value("input", 5, 2), marketData |-> Value("input", 25, 0),
     planningHistory |-> Value("input", 1, 0)]

\* C22: assessDataQuality rates comparables High iff count >= 5 with at least
\* 2 rated High, else Medium iff count >= 3, else Low; market data High iff
\* sampleSize >= 20, else Medium iff >= 10, else Low; planning Medium iff the
\* history is non-empty, else Low; overallScore is round((sum of the scores
\* High=3, Medium=2, Low=1) / 3 / 3 * 100): 33 for the low-quality fixture and
\* 89 for the high-quality fixture.
C22_QualityRubric ==
    quality.pc = "returned" =>
        /\ FollowsRubric(quality.a, quality.resultA)
        /\ FollowsRubric(quality.b, quality.resultB)
        /\ quality.a = LowQualityFixture => quality.resultA.overallScore = 33
        /\ quality.b = HighQualityFixture => quality.resultB.overallScore = 89

\* the two fixtures have been assessed
C22_Witness ==
    /\ quality.pc = "returned"
    /\ quality.a = LowQualityFixture
    /\ quality.b = HighQualityFixture
    /\ quality.resultA.overallScore = 33
    /\ quality.resultB.overallScore = 89

Rank(rating) == CASE rating = "High" -> 2 [] rating = "Medium" -> 1 [] rating = "Low" -> 0

\* every component of r rates at least as high as in q, and one strictly higher
RatesHigher(r, q) ==
    /\ Rank(r.comparablesQuality) >= Rank(q.comparablesQuality)
    /\ Rank(r.marketDataQuality) >= Rank(q.marketDataQuality)
    /\ Rank(r.planningDataQuality) >= Rank(q.planningDataQuality)
    /\ \/ Rank(r.comparablesQuality) > Rank(q.comparablesQuality)
       \/ Rank(r.marketDataQuality) > Rank(q.marketDataQuality)
       \/ Rank(r.planningDataQuality) > Rank(q.planningDataQuality)

RatedLow(r) ==
    {c \in {"comparables", "market", "planning"} :
        \/ c = "comparables" /\ r.comparablesQuality = "Low"
        \/ c = "market" /\ r.marketDataQuality = "Low"
        \/ c = "planning" /\ r.planningDataQuality = "Low"}

\* C23: assessDataQuality is monotone: when every component of input A rates
\* at least as high as the same component of input B and one rates strictly
\* higher, overallScore(A) > overallScore(B) and A has no more warnings than
\* B; the number of warnings equals the number of components rated Low.
C23_Monotone ==
    quality.pc = "returned" =>
        /\ RatesHigher(quality.resultA, quality.resultB) =>
              /\ quality.resultA.overallScore > quality.resultB.overallScore
              /\ Len(quality.resultA.warnings) <= Len(quality.resultB.warnings)
        /\ Len(quality.resultA.warnings) = Cardinality(RatedLow(quality.resultA))
        /\ Len(quality.resultB.warnings) = Cardinality(RatedLow(quality.resultB))

\* A beats B on the comparables alone, High against Medium, with no warning
\* on either side
C23_Witness ==
    /\ quality.pc = "returned"
    /\ RatesHigher(quality.resultA, quality.resultB)
    /\ quality.resultA.comparablesQuality = "High"
    /\ quality.resultB.comparablesQuality = "Medium"
    /\ quality.resultA.marketDataQuality = quality.resultB.marketDataQuality
    /\ quality.resultA.planningDataQuality = quality.resultB.planningDataQuality
    /\ quality.resultB.warnings = <<>>

----------------------------------------------------------------------------
(* Properties of the analyzer's use of the cache *)

\* C24: every provider call, the seed included, reads the cache first: on an
\* unexpired entry under its key for the subject it answers with the cached
\* value and sends no request; on a miss the provider does its work, and the
\* result of a request that answered is stored under that key.
C24_CacheCheckedFirst ==
    [][/\ an'.count = an.count + 1 =>
             (an'.seed = "cached" <=> CacheHit(cache, CacheKey("coords", an'.address)))
       /\ (an.pc # "fanout" /\ an'.pc = "fanout") =>
             \A p \in Providers :
                LET k == CacheKey(p, an'.address)
                IN  IF CacheHit(cache, k)
                    THEN /\ an'.provider[p] = Fulfilled(MapGet(cache, k).data)
                         /\ MapGet(cache', k).data = MapGet(cache, k).data
                         /\ MapGet(cache', k).timestamp = MapGet(cache, k).timestamp
                    ELSE \/ an'.provider[p].status = "pending"
                         \/ /\ an'.provider[p].status = "fulfilled"
                            /\ CacheHit(cache', k)
                            /\ MapGet(cache', k).data = an'.provider[p].value
       /\ \A p \in Providers :
             (/\ an.provider[p].status = "pending"
              /\ an'.provider[p].status = "fulfilled"
              /\ ~an'.provider[p].failed)
             => /\ ~CacheHit(cache, CacheKey(p, an.address))
                /\ CacheHit(cache', CacheKey(p, an.address))
                /\ MapGet(cache', CacheKey(p, an.address)).data = an'.provider[p].value]_vars

\* a second call found the coordinates and the comparables in the cache and
\* sent a request for the transport links only
C24_Witness ==
    /\ an.count = 2
    /\ an.pc = "fanout"
    /\ an.seed = "cached"
    /\ an.provider["comparables"] = Fulfilled(LandRegistry(5, 2))
    /\ an.provider["details"].status = "fulfilled"
    /\ an.provider["transport"].status = "pending"

----------------------------------------------------------------------------
(* Properties of the values held by CacheService *)

\* C25: cached values are not shared by reference: when a caller changes a
\* value after passing it to set, or a value that get returned, a later get of
\* the same key still returns what it returned before the change.
C25_NoSharedReference ==
    [][lastOp'.op = "mutate" =>
          \A k \in KeysOf(cache) : ContentOf(cache', heap', k) = ContentOf(cache, heap, k)]_vars

\* C26: an entry written by set, or re-stamped by refresh, with an explicit ttl
\* argument (any number, 0 included) carries that ttl; the default TTL is used
\* only when the call passed no ttl.
C26_TtlSelection ==
    \A k \in KeysOf(cache) \cap Keys :
        MapGet(cache, k).ttl =
            IF lease[k].arg = NoArg THEN defaultTTL ELSE lease[k].arg[1] * 60 * 1000

\* C27: the periodic cleanup, when it fires, removes every entry whose ttl has
\* elapsed and no other entry; it fires every five minutes, whatever the ttl
\* of the entries and whatever is read: no other call moves the timer.
C27_PeriodicCleanup ==
    [][/\ lastOp'.op = "cleanup" =>
             /\ \A i \in 1 .. Len(cache) :
                   (\E j \in 1 .. Len(cache') : cache'[j] = cache[i])
                      <=> now - cache[i].timestamp <= cache[i].ttl
             /\ Len(cache') <= Len(cache)
             /\ now = cleanupDue
             /\ cleanupDue' = cleanupDue + 5 * 60 * 1000
       /\ lastOp'.op # "cleanup" => cleanupDue' = cleanupDue
       /\ \E n \in 1 .. (MaxSweepMinutes + 5) : cleanupDue = n * 5 * 60 * 1000]_vars

\* the second firing of the timer removed the entry of key 1, which had been
\* read, and kept the entry of key 2
C27_Witness ==
    /\ lastOp.op = "cleanup"
    /\ now = 2 * CleanupIntervalMs
    /\ lastOp.expired = {1}
    /\ \E i \in 1 .. Len(cache) : cache[i].key = 2 /\ cache[i].accessCount = 0

----------------------------------------------------------------------------
(* Properties of destroy *)

\* C28: CacheService.destroy and RateLimiter.destroy each stop the periodic
\* timer of their component and empty its store; a second destroy changes
\* nothing; once a component is destroyed its sweep never fires again.
C28_Shutdown ==
    [][/\ (lastOp' # lastOp /\ lastOp'.op = "destroy") => (cache' = <<>> /\ ~timers'.cache)
       /\ (rlLast' # rlLast /\ rlLast'.op = "destroy") =>
             ((\A id \in DOMAIN requests : requests'[id] = <<>>) /\ ~timers'.limiter)
       /\ (lastOp.op = "destroy" /\ lastOp'.op = "destroy") =>
             (cache' = cache /\ timers'.cache = timers.cache /\ cleanupDue' = cleanupDue)
       /\ (rlLast.op = "destroy" /\ rlLast'.op = "destroy") =>
             (requests' = requests /\ timers'.limiter = timers.limiter /\ sweepDue' = sweepDue)
       /\ ~timers.cache =>
             (~timers'.cache /\ cleanupDue' = cleanupDue /\ lastOp'.op # "cleanup")
       /\ ~timers.limiter =>
             (~timers'.limiter /\ sweepDue' = sweepDue /\ rlLast'.op # "cleanup")]_vars

\* both components were destroyed and then used again: the instants at which
\* their timers were due have passed, and an expired entry and a stale record
\* are still stored
C28_Witness ==
    /\ ~timers.cache
    /\ ~timers.limiter
    /\ now > cleanupDue
    /\ now > sweepDue
    /\ \E i \in 1 .. Len(cache) : Expired(cache[i], now)
    /\ \E i \in 1 .. Len(requests[1]) : now - requests[1][i].timestamp >= WindowMs

----------------------------------------------------------------------------
(* Invariants of RateLimiter *)

\* a record of rs that is stale at time t: its age has reached windowMs
Stale(rs, t) == {i \in 1 .. Len(rs) : t - rs[i].timestamp >= WindowMs}

\* C29: after canMakeRequest or getRemainingRequests on an identifier, the
\* records stored for it hold no stale record (and every active one is kept);
\* after a periodic sweep no identifier holds a stale record, and an
\* identifier without active records is no longer in the map.
C29_StaleReclaimed ==
    [][/\ \A id \in DOMAIN requests :
             (IsRateCall("canMakeRequest", id) \/ IsRateCall("getRemainingRequests", id)) =>
                /\ Stale(requests'[id], now) = {}
                /\ Len(requests'[id]) = Cardinality(Active(requests[id], now))
       /\ (rlLast'.op = "cleanup" /\ sweepDue' # sweepDue) =>
             \A id \in DOMAIN requests :
                /\ Stale(requests'[id], now) = {}
                /\ Len(requests'[id]) = Cardinality(Active(requests[id], now))
                /\ Active(requests[id], now) = {} => requests'[id] = <<>>]_vars

\* a sweep dropped identifier 2, which is never queried, and kept a younger
\* record of identifier 1
C29_Witness ==
    /\ rlLast.op = "cleanup"
    /\ 2 \in rlLast.reclaimed
    /\ requests[2] = <<>>
    /\ requests[1] # <<>>

\* C30: under the default configuration, in every reachable state and at
\* every clock value, no identifier has more than maxRequests active records
\* (age below windowMs), and getRemainingRequests returns maxRequests minus
\* the number of active records of its identifier.
C30_QuotaInvariant ==
    IsDefaultConfig =>
        /\ \A id \in DOMAIN requests : Cardinality(Active(requests[id], now)) <= MaxRequests
        /\ rlLast.op = "getRemainingRequests" =>
              rlLast.result = MaxRequests - Cardinality(Active(requests[rlLast.id], now))

\* getRemainingRequests answered from a window in which one of maxRequests
\* stored records had aged out
C30_Witness ==
    /\ IsDefaultConfig
    /\ rlLast.op = "getRemainingRequests"
    /\ rlLast.stored = MaxRequests
    /\ rlLast.result = 1
    /\ Len(requests[rlLast.id]) = MaxRequests - 1

\* C31: a failed provider fetch is not cached: when the request of a provider
\* fails during analyze, nothing is written under that provider's cache key,
\* so the next analyze for the subject sends the request again.
C31_FailureNotCached ==
    [][\A p \in Providers :
          (/\ an.provider[p].status = "pending"
           /\ an'.provider[p].status # "pending"
           /\ an'.provider[p].failed)
          => /\ ~CacheHit(cache', CacheKey(p, an.address))
             /\ cache' = cache]_vars

----------------------------------------------------------------------------
(* Properties of getOrSet *)

\* an entry for k is stored and its ttl has not elapsed
Unexpired(c, k) == MapHas(c, k) /\ now - MapGet(c, k).timestamp <= MapGet(c, k).ttl

\* the steps of getOrSet that follow the producer: a resolved producer has its
\* result stored and returned, a failed one propagates and stores nothing
AfterProducer ==
    /\ lastOp'.op = "getOrSetDone" =>
          /\ MapHas(cache', lastOp'.key)
          /\ MapGet(cache', lastOp'.key).data = lastOp'.result
          /\ MapGet(cache', lastOp'.key).timestamp = now
          /\ inflight'[lastOp'.call] = Idle
    /\ lastOp'.op = "getOrSetFailed" =>
          /\ cache' = cache
          /\ inflight'[lastOp'.call] = Idle

\* C32 as stated: getOrSet on a key with an unexpired stored result returns it
\* and does not invoke the producer, for every producer result; on a miss the
\* producer is invoked once and its result stored; a failing producer
\* propagates and nothing is stored.
C32_GetOrSetAnyResult ==
    [][/\ lastOp'.op = "getOrSet" =>
             IF Unexpired(cache, lastOp'.key)
             THEN /\ lastOp'.result = MapGet(cache, lastOp'.key).data
                  /\ inflight' = inflight
             ELSE /\ inflight'[lastOp'.call].pc = "awaiting"
                  /\ \A q \in Calls \ {lastOp'.call} : inflight'[q] = inflight[q]
       /\ AfterProducer]_vars

\* C32 amended: getOrSet on a key with an unexpired stored result other than
\* null returns it and does not invoke the producer; otherwise, also when the
\* stored result is null, the producer is invoked, once, and its result is
\* stored; a failing producer propagates and nothing is stored.
C32_GetOrSetNonNull ==
    [][/\ lastOp'.op = "getOrSet" =>
             IF Unexpired(cache, lastOp'.key) /\ MapGet(cache, lastOp'.key).data # Null
             THEN /\ lastOp'.result = MapGet(cache, lastOp'.key).data
                  /\ inflight' = inflight
             ELSE /\ lastOp'.result = Null
                  /\ inflight'[lastOp'.call].pc = "awaiting"
                  /\ \A q \in Calls \ {lastOp'.call} : inflight'[q] = inflight[q]
       /\ AfterProducer]_vars

\* a getOrSet found the null that an earlier producer had resolved with, still
\* unexpired, and invoked its producer
C32_Witness ==
    /\ lastOp.op = "getOrSet"
    /\ Unexpired(cache, lastOp.key)
    /\ MapGet(cache, lastOp.key).data = Null
    /\ inflight[lastOp.call].pc = "awaiting"

----------------------------------------------------------------------------
(* Properties of the report tool *)

\* C33: when the geocoding service answers for the address, the
\* generate_development_report tool returns a report and does not fail with a
\* 'Failed to generate report' error.
C33_ReportWhenGeocodable ==
    (srv.last.op = "generateReport" /\ srv.last.geocodeOk) => ~srv.last.isError

\* the step is an analyze_property call reading its cache
AnalyzePropertyStep ==
    /\ srv'.last.op = "analyzeProperty"
    /\ srv'.executed # srv.executed
    /\ ~Analyzing

\* the step is an analyze_property call resuming after analyze
AnalyzePropertyResumeStep == Analyzing /\ ~Analyzing'

\* the previous analyze_property call answered with an analysis
Answered ==
    /\ srv.last.op = "analyzeProperty"
    /\ srv.last.pc = "responded"
    /\ ~srv.last.isError

\* C34: after analyze_property has answered with an analysis for an address
\* and an analysis type, the next call with the same arguments, made while the
\* entry is in the cache and unexpired, answers with the same analysis and
\* does not call analyze; a call whose analysis throws leaves the cache as it
\* was, so nothing is stored under the analysis key.
C34_ServerResultCache ==
    [][/\ (/\ AnalyzePropertyStep
           /\ Answered
           /\ srv'.last.address = srv.last.address
           /\ srv'.last.analysisType = srv.last.analysisType
           /\ CacheHit(cache, CacheKey(AnalysisKeyName(srv.last.analysisType), srv.last.address)))
          => /\ srv'.last.pc = "responded"
             /\ ~srv'.last.isError
             /\ srv'.last.text = srv.last.text
             /\ an' = an
       /\ (AnalyzePropertyResumeStep /\ an.pc = "thrown")
          => /\ cache' = cache
             /\ srv'.last.isError
             /\ ~MapHas(cache', CacheKey(AnalysisKeyName(srv.last.analysisType), srv.last.address))
                  \/ MapGet(cache', CacheKey(AnalysisKeyName(srv.last.analysisType),
                                             srv.last.address)).data.returned]_vars

\* a second call has been answered from the cache with the analysis that the
\* first call made, and analyze has run once
C34_Witness ==
    /\ Answered
    /\ srv.last.cached
    /\ srv.last.analysisType = "comprehensive"
    /\ srv.last.text = an.result
    /\ an.count = 1
    /\ Len(srv.executed) = 2

----------------------------------------------------------------------------
(* Termination of analyze *)

Running == an.pc \in {"seed", "fanout"}

Finished == an.pc \in {"returned", "thrown"}

----------------------------------------------------------------------------
(* Properties of RateLimiter.middleware *)

\* the number of requests of identifier id that reached next() less than
\* windowMs ago
PassedInWindow(id) == Len(PassedBy(id))

\* a refused request: 429, no next(), no record
RefusedCleanly ==
    (rlLast.op = "middleware" /\ ~rlLast.result)
        => /\ rlLast.status = 429
           /\ ~rlLast.next
           /\ rlLast.appended = 0

\* C36 as stated: under every configuration, at most maxRequests requests
\* of the identifier reach next() within a window of windowMs, and a request
\* that arrives when canMakeRequest is false gets 429, does not reach next()
\* and adds no record.
C36_MiddlewareQuota ==
    /\ \A id \in DOMAIN requests : PassedInWindow(id) <= config.maxRequests
    /\ RefusedCleanly

\* C36, amended: the bound on the requests that reach next() holds when
\* skipSuccessfulRequests is off (the middleware records every request as a
\* success, so with the option on it records nothing and refuses nothing);
\* a refused request gets 429, does not reach next() and adds no record
\* under every configuration.
C36_MiddlewareQuotaUnlessSkipped ==
    /\ ~config.skipSuccessfulRequests
          => \A id \in DOMAIN requests : PassedInWindow(id) <= config.maxRequests
    /\ RefusedCleanly

\* a request was refused after maxRequests requests went through in the window
C36_Witness ==
    /\ rlLast.op = "middleware"
    /\ rlLast.status = 429
    /\ ~config.skipSuccessfulRequests
    /\ PassedInWindow(rlLast.id) = config.maxRequests
    /\ rlLast.stored = config.maxRequests
    /\ now > 0

----------------------------------------------------------------------------
(* Properties of reset and resetAll *)

\* identifier id has no record, is admitted and has its whole quota left
Fresh(rs) ==
    /\ rs = <<>>
    /\ QueriesOf(rs).canMakeRequest
    /\ QueriesOf(rs).getRemainingRequests = config.maxRequests

\* C37: reset(identifier) removes every record of the identifier, so that
\* right after it canMakeRequest is true and getRemainingRequests is
\* maxRequests for it, and leaves the records of every other identifier as
\* they were; resetAll does the same for every identifier.
C37_Reset ==
    [][/\ rlLast'.op = "reset"
          => /\ Fresh(requests'[rlLast'.id])
             /\ \A b \in DOMAIN requests \ {rlLast'.id} : requests'[b] = requests[b]
       /\ rlLast'.op = "resetAll"
          => \A id \in DOMAIN requests : Fresh(requests'[id])]_vars

\* identifier 2 was reset from a full window while identifier 1 keeps its own
C37_Witness ==
    /\ rlLast.op = "reset"
    /\ rlLast.id = 2
    /\ rlLast.stored = MaxRequests
    /\ requests[2] = <<>>
    /\ Len(requests[1]) = MaxRequests

----------------------------------------------------------------------------
(* Overwriting *)

\* C38: set on a key that is already in the store replaces the entry of
\* that key and leaves every other key of the store present, also when the
\* store holds maxSize entries.
C38_OverwriteKeepsOthers ==
    [][(lastOp'.op = "set" /\ MapHas(cache, lastOp'.key))
          => /\ KeysOf(cache') = KeysOf(cache)
             /\ MapGet(cache', lastOp'.key).timestamp = now]_vars

----------------------------------------------------------------------------
(* Range of the score *)

ComprehensiveScores == {33, 44, 56, 67, 78, 89}

\* what assessDataQuality makes of the arguments i
Assessment(i) == AssessDataQuality(i.comparables, i.marketData, i.planningHistory)

\* C39: every comprehensive result of analyze has an overallScore among 33,
\* 44, 56, 67, 78 and 89, whatever the sizes of the payloads that are
\* assessed, because the planning component is never rated High; every basic
\* result has the score 60.
C39_ScoreRange ==
    an.pc = "returned" =>
        IF an.mode = "basic"
        THEN an.result.dataQuality.overallScore = 60
        ELSE /\ an.result.dataQuality.overallScore \in ComprehensiveScores
             /\ an.result.dataQuality.planningDataQuality # "High"
             /\ \A i \in QualityInputs :
                   LET r == Assessment(i)
                   IN  WellFormed(i) => /\ r.overallScore \in ComprehensiveScores
                                        /\ r.planningDataQuality # "High"

\* a comprehensive call returned with the score 67: no comparables, generated
\* market data and the planning history
C39_Witness ==
    /\ an.pc = "returned"
    /\ an.mode = "comprehensive"
    /\ an.result.comparables = Empty
    /\ an.result.dataQuality.overallScore = 67
    /\ an.result.dataQuality.warnings = <<"Limited comparable sales data available">>

----------------------------------------------------------------------------
(* Access statistics *)

SameStats(e, f) == e.accessCount = f.accessCount /\ e.lastAccessed = f.lastAccessed

\* the step is the call op on key k
StepOn(o, k) == lastOp'.op = o /\ lastOp'.key = k

\* C40: of the entries that a step leaves in the store, only the one read by
\* a successful get changes its accessCount (by one) and its lastAccessed
\* (to the time of the call), and only the one written by set is replaced;
\* has, refresh and the periodic cleanup change the statistics of no
\* surviving entry; set creates its entry with accessCount 0, also when the
\* key was present.
C40_AccessStatistics ==
    [][/\ \A k \in KeysOf(cache) \cap KeysOf(cache') :
             /\ StepOn("get", k)
                  => /\ MapGet(cache', k).accessCount = MapGet(cache, k).accessCount + 1
                     /\ MapGet(cache', k).lastAccessed = now
             /\ ~(StepOn("get", k) \/ StepOn("set", k))
                  => SameStats(MapGet(cache', k), MapGet(cache, k))
       /\ lastOp'.op = "set"
             => /\ MapGet(cache', lastOp'.key).accessCount = 0
                /\ MapGet(cache', lastOp'.key).lastAccessed = now]_vars

\* key 1, read once a minute ago, was refreshed while key 2 is stored and
\* was read too
C40_Witness ==
    /\ lastOp.op = "refresh"
    /\ lastOp.key = 1
    /\ lastOp.result
    /\ MapGet(cache, 1).accessCount = 1
    /\ MapGet(cache, 1).lastAccessed < now
    /\ MapGet(cache, 1).timestamp = now
    /\ MapHas(cache, 2)
    /\ MapGet(cache, 2).accessCount = 1

=============================================================================
